---- MODULE Spec2Model ----
(***************************************************************************)
(* Recommender-system notebooks (jhnyc/recsys): the factorization-machine  *)
(* block, the linear block, the index preparation of the notebooks, the    *)
(* Two-Tower and NCF forward passes, the shared train loop and predict.    *)
(*                                                                         *)
(* Tensors are integer valued.  A batch is a sequence of samples, a sample *)
(* a sequence of feature indices, an embedding table a function from the   *)
(* row index 0..n-1 to a sequence of embed_dim integers.                   *)
(***************************************************************************)
EXTENDS Integers, Sequences, FiniteSets, TLC

VARIABLES
    arch,          \* the model class that was constructed
    params,        \* the nn.Parameter tensors of the model, by attribute name
    buffers,       \* the BatchNorm1d buffers of the model's MLP
    training,      \* nn.Module.training of the model
    grad_enabled,  \* torch's gradient tracking switch (torch.no_grad clears it)
    grad,          \* the .grad tensors of the parameters
    opt,           \* the state of the torch.optim.Adam made by train
    pc,            \* where the notebook is: "idle" or inside train
    epochs,        \* train: its epochs argument
    epoch,         \* train: the epoch counter of the outer loop
    n_steps,       \* train: the optimizer steps taken since train was called
    calls,         \* how many times train has been called
    dataloader,    \* train: its dataloader argument, the dataset it iterates
    pending,       \* train: the dataset rows the DataLoader has not served this epoch
    x,             \* the batch given to the last forward pass
    out,           \* what the last forward pass computed
    prep           \* the result of the last data preparation

vars ==
    <<arch, params, buffers, training, grad_enabled, grad, opt, pc, epochs, epoch, n_steps, calls,
      dataloader, pending, x, out, prep>>

-----------------------------------------------------------------------------
(* Bounds of the model *)

EmbedDim == 2
NSeeds == 3
MaxReal == 2
MaxPad == 2
MaxEpochs == 1
MaxCalls == 2
BatchSize == 2
FloatMax == 300
MaxSize == 2
MaxHidden == 2
MaxItems == 3
MaxRows == 2
MaxScore == 2
MaxSample == 2

-----------------------------------------------------------------------------
(* Integer helpers *)

RECURSIVE SumSeq(_)
SumSeq(s) == IF s = <<>> THEN 0 ELSE Head(s) + SumSeq(Tail(s))

Sgn(n) == IF n > 0 THEN 1 ELSE IF n < 0 THEN -1 ELSE 0

Range(s) == {s[i] : i \in DOMAIN s}

SeqsUpTo(S, n) == UNION {[1..m -> S] : m \in 1..n}

RECURSIVE Repeat(_, _)
Repeat(v, n) == IF n = 0 THEN <<>> ELSE <<v>> \o Repeat(v, n - 1)

Count(v, s) == Cardinality({i \in DOMAIN s : s[i] = v})

-----------------------------------------------------------------------------
(* Data preparation of the hybrid FM and hybrid Wide&Deep notebooks.  movie
   is the movie table (movie[m + 1] is the feature list of movieId m), rating
   the rating rows <<userId, movieId>> in file order. *)

MaxMovies == 2
MaxFeat == 2
MaxRatings == 3

Max(S) == CHOOSE m \in S : \A n \in S : n <= m

Min(a, b) == IF a <= b THEN a ELSE b

\* The feature lists a movie can carry: the strictly increasing non-empty
\* sequences of feature names 1..MaxFeat.
FeatureLists ==
    {s \in SeqsUpTo(1..MaxFeat, MaxFeat) : \A i \in 1..(Len(s) - 1) : s[i] < s[i + 1]}

\* The rating tables: userIds 0, 1, .. in file order (grouped by user, no id
\* skipped), movieIds of the movie table.
RECURSIVE RatingsOfLen(_, _)
RatingsOfLen(n_movies, len) ==
    IF len = 1 THEN {<<<<0, m>>>> : m \in 0..(n_movies - 1)}
    ELSE UNION {{Append(r, <<u, m>>) :
                    u \in {r[len - 1][1], r[len - 1][1] + 1}, m \in 0..(n_movies - 1)} :
                r \in RatingsOfLen(n_movies, len - 1)}

RatingTables(n_movies) == UNION {RatingsOfLen(n_movies, len) : len \in 1..MaxRatings}

MovieTables == SeqsUpTo(FeatureLists, MaxMovies)

load_movielens(movie) == {[movie |-> movie, rating |-> rt] : rt \in RatingTables(Len(movie))}

all_movie_features(movie) == UNION {Range(movie[m]) : m \in DOMAIN movie}

\* enumerate() over the set numbers its elements 0..n-1 in iteration order,
\* taken here to be the increasing order.
feature_to_id(movie) ==
    [f \in all_movie_features(movie) |->
        Cardinality({g \in all_movie_features(movie) : g < f})]

movie_feat_id_no_shift(movie) ==
    [m \in DOMAIN movie |-> [i \in DOMAIN movie[m] |-> feature_to_id(movie)[movie[m][i]]]]

movie_feat_id(movie) ==
    [m \in DOMAIN movie |-> [i \in DOMAIN movie[m] |-> feature_to_id(movie)[movie[m][i]] + 1]]

pad_sequence(seqs, padding_value) ==
    LET L == Max({Len(seqs[m]) : m \in DOMAIN seqs})
    IN  [m \in DOMAIN seqs |-> seqs[m] \o Repeat(padding_value, L - Len(seqs[m]))]

features_enc(movie) == pad_sequence(movie_feat_id(movie), 0)

n_user_of(rating) == Cardinality({rating[i][1] : i \in DOMAIN rating})

n_movies_of(movie) == Len(movie)

\* x = hstack(rating[[userId, movieId]], features_enc[rating.movieId]), then the
\* offsets: x[:, 1] += n_user and x[:, 2:] += n_user + n_movies.
hybrid_x(movie, rating) ==
    LET n_user == n_user_of(rating)
        n_movies == n_movies_of(movie)
        enc == features_enc(movie)
    IN  [r \in DOMAIN rating |->
            <<rating[r][1], rating[r][2] + n_user>>
            \o [j \in DOMAIN enc[rating[r][2] + 1] |->
                    enc[rating[r][2] + 1][j] + n_user + n_movies]]

\* A split that leaves out the closing [len(x)-1].
test_ix_no_last(X) == {i \in 0..(Len(X) - 2) : X[i + 1][1] # X[i + 2][1]}

\* test_ix = [i for i,v in enumerate(x[:-1, 0]) if v != x[i+1,0]] + [len(x)-1],
\* the 0-based row numbers as a set.
test_ix(X) == {i \in 0..(Len(X) - 2) : X[i + 1][1] # X[i + 2][1]} \cup {Len(X) - 1}

\* train_ix = [i for i in range(len(x)) if i not in test_ix]
train_ix(X) == {i \in 0..(Len(X) - 1) : i \notin test_ix(X)}

hybrid_n_features_no_null(movie, rating) ==
    n_user_of(rating) + n_movies_of(movie) + Cardinality(all_movie_features(movie))

hybrid_n_features(movie, rating) ==
    n_user_of(rating) + n_movies_of(movie) + Cardinality(all_movie_features(movie)) + 1

-----------------------------------------------------------------------------
(* Data preparation of the FM, Wide&Deep, NCF and Two-Tower notebooks.
   rating holds rows <<item_id, user_id>>, ids counted from 1; item_label and
   user_label are the label-encoded attribute matrices, one row per id. *)

MaxUsers == 2
ItemFields == 2
UserFields == 1
FieldCard == 2

\* A label-encoded matrix of n rows and nf fields: every field numbers its
\* values from 0 and is shifted past the fields before it.
LabelTables(n, nf) ==
    {[i \in 1..n |-> [j \in 1..nf |-> (j - 1) * FieldCard + ((i * a + j) % FieldCard)]] :
        a \in 0..(FieldCard - 1)}

get_movielens ==
    UNION {[ratings : SeqsUpTo((1..ni) \X (1..nu), MaxRatings),
            n_items : {ni}, n_users : {nu}] :
            ni \in 1..MaxMovies, nu \in 1..MaxUsers}

get_items_label_encoding(n_items) == LabelTables(n_items, ItemFields)

get_users_label_encoding(n_users) == LabelTables(n_users, UserFields)

MatrixMax(m) == Max(UNION {Range(m[i]) : i \in DOMAIN m})

\* X = np.hstack((item_label[rating['item_id']-1,:], user_label[rating['user_id']-1,:]))
fm_X(rating, item_label, user_label) ==
    [r \in DOMAIN rating |-> item_label[rating[r][1]] \o user_label[rating[r][2]]]

user_offset(item_label) == MatrixMax(item_label) + 1

user_label_offset(item_label, user_label) ==
    [u \in DOMAIN user_label |->
        [j \in DOMAIN user_label[u] |-> user_label[u][j] + user_offset(item_label)]]

widedeep_X(rating, item_label, user_label) ==
    [r \in DOMAIN rating |->
        item_label[rating[r][1]] \o user_label_offset(item_label, user_label)[rating[r][2]]]

\* X['user_id'] = X['user_id'] + rating['item_id'].max() + 1
ncf_X(rating) ==
    [r \in DOMAIN rating |->
        <<rating[r][1],
          rating[r][2] + Max({rating[i][1] : i \in DOMAIN rating}) + 1>>]

twotower_X(rating, item_label, user_label) ==
    [r \in DOMAIN rating |-> item_label[rating[r][1]] \o user_label[rating[r][2]]]

\* n_features = X.max() + 1
n_features_of(X) == MatrixMax(X) + 1

n_item_features_of(item_label) == MatrixMax(item_label) + 1

n_user_features_of(user_label) == MatrixMax(user_label) + 1

-----------------------------------------------------------------------------
(* The notebooks' preparation cells as steps: each leaves in prep the index
   array X it built and the table sizes its model is constructed with. *)

NoPrep == [notebook |-> "none"]

NoModel ==
    /\ arch = "none"
    /\ params = <<>>
    /\ buffers = <<>>
    /\ training = TRUE
    /\ grad_enabled = TRUE
    /\ grad = <<>>
    /\ opt = <<>>
    /\ pc = "idle"
    /\ epochs = 0
    /\ epoch = 0
    /\ n_steps = 0
    /\ calls = 0
    /\ dataloader = <<>>
    /\ pending = {}
    /\ x = <<>>
    /\ out = <<>>

ModelUnchanged ==
    UNCHANGED <<arch, params, buffers, training, grad_enabled, grad, opt, pc, epochs, epoch, n_steps, calls,
                dataloader, pending, x, out>>

\* Hybrid FM and hybrid Wide&Deep notebooks (the same cells in both).
PrepareHybrid ==
    /\ prep = NoPrep
    /\ \E mv \in MovieTables : \E d \in load_movielens(mv) :
        LET n_user == n_user_of(d.rating)
            n_movies == n_movies_of(d.movie)
            X == hybrid_x(d.movie, d.rating)
        IN  /\ prep' = [notebook |-> "hybrid",
                        X |-> X,
                        n_features |-> hybrid_n_features(d.movie, d.rating),
                        test_ix |-> test_ix(X),
                        train_ix |-> train_ix(X),
                        user_ix |-> {X[r][1] : r \in DOMAIN X},
                        movie_ix |-> {(m - 1) + n_user : m \in DOMAIN d.movie},
                        feature_ix |-> UNION {{movie_feat_id(d.movie)[m][i] + n_user + n_movies :
                                                  i \in DOMAIN d.movie[m]} : m \in DOMAIN d.movie},
                        pad_ix |-> UNION {{X[r][j] : j \in (2 + Len(d.movie[d.rating[r][2] + 1]) + 1)..Len(X[r])} :
                                             r \in DOMAIN X}]
            /\ ModelUnchanged

PrepareFM ==
    /\ prep = NoPrep
    /\ \E d \in get_movielens :
        \E item_label \in get_items_label_encoding(d.n_items),
           user_label \in get_users_label_encoding(d.n_users) :
            LET X == fm_X(d.ratings, item_label, user_label)
            IN  /\ prep' = [notebook |-> "fm", X |-> X,
                            n_features |-> n_features_of(X),
                            n_item_fields |-> Len(item_label[1])]
                /\ ModelUnchanged

PrepareWideDeep ==
    /\ prep = NoPrep
    /\ \E d \in get_movielens :
        \E item_label \in get_items_label_encoding(d.n_items),
           user_label \in get_users_label_encoding(d.n_users) :
            LET X == widedeep_X(d.ratings, item_label, user_label)
            IN  /\ prep' = [notebook |-> "widedeep", X |-> X,
                            n_features |-> n_features_of(X),
                            n_item_fields |-> Len(item_label[1])]
                /\ ModelUnchanged

PrepareNCF ==
    /\ prep = NoPrep
    /\ \E d \in get_movielens :
        LET X == ncf_X(d.ratings)
        IN  /\ prep' = [notebook |-> "ncf", X |-> X,
                        n_features |-> n_features_of(X),
                        n_item_fields |-> 1]
            /\ ModelUnchanged

PrepareTwoTower ==
    /\ prep = NoPrep
    /\ \E d \in get_movielens :
        \E item_label \in get_items_label_encoding(d.n_items),
           user_label \in get_users_label_encoding(d.n_users) :
            LET X == twotower_X(d.ratings, item_label, user_label)
            IN  /\ prep' = [notebook |-> "twotower", X |-> X,
                            n_item_features |-> n_item_features_of(item_label),
                            n_user_features |-> n_user_features_of(user_label),
                            n_item_fields |-> Len(item_label[1])]
                /\ ModelUnchanged

InitPrep == NoModel /\ prep = NoPrep

NextPrep ==
    \/ PrepareHybrid
    \/ PrepareFM
    \/ PrepareWideDeep
    \/ PrepareNCF
    \/ PrepareTwoTower

SpecPrep == InitPrep /\ [][NextPrep]_vars

\* The global indices the item-side and the user-side columns of X take.
ItemSide == {prep.X[r][j] : r \in DOMAIN prep.X, j \in 1..prep.n_item_fields}

UserSide ==
    UNION {{prep.X[r][j] : j \in (prep.n_item_fields + 1)..Len(prep.X[r])} : r \in DOMAIN prep.X}

(* C4: in the hybrid preparation the global index of a padding slot is never
   the global index of a user, of a movie or of a real movie feature. *)
C4_PaddingIndexReserved ==
    prep.notebook = "hybrid" =>
        prep.pad_ix \cap (prep.user_ix \cup prep.movie_ix \cup prep.feature_ix) = {}

C4_Witness ==
    /\ prep.notebook = "hybrid"
    /\ prep.pad_ix # {}
    /\ Cardinality(prep.feature_ix) > 1
    /\ Cardinality(prep.user_ix) > 1

(* C5: in the FM, Wide&Deep and NCF notebooks, which feed item-side and
   user-side columns into one table, the two sides take disjoint indices. *)
C5_SharedTableSidesDisjoint ==
    prep.notebook \in {"fm", "widedeep", "ncf"} => ItemSide \cap UserSide = {}

(* C6: every index of X is a row of the table it is looked up in: at least 0
   and below the row count the model is constructed with. *)
C6_IndicesInRange ==
    /\ prep.notebook \in {"hybrid", "fm", "widedeep", "ncf"} =>
          \A r \in DOMAIN prep.X : \A j \in DOMAIN prep.X[r] :
              prep.X[r][j] >= 0 /\ prep.X[r][j] < prep.n_features
    /\ prep.notebook = "twotower" =>
          /\ \A v \in ItemSide : v >= 0 /\ v < prep.n_item_features
          /\ \A v \in UserSide : v >= 0 /\ v < prep.n_user_features

C6_Witness ==
    /\ prep.notebook = "hybrid"
    /\ \E r \in DOMAIN prep.X : \E j \in DOMAIN prep.X[r] : prep.X[r][j] = prep.n_features - 1

-----------------------------------------------------------------------------
(* Tensors.  A parameter tensor is stored as rows of columns: an embedding
   table has the rows 0..n-1, every other tensor the rows 1..n; a tensor of
   shape (1,) is one row of one column. *)

\* A tensor holds its elements: it is computed once, when it is made, and not
\* again at every read of an element.
Tensor(t) == IF t = t THEN t ELSE t

\* The pseudo-random initial values torch draws for the seed in force.
Noise(seed, salt, r, c) == ((seed * seed + salt * (r + 1) + 3 * seed * r + 2 * c + r * c) % 5) - 2

InitTable(seed, salt, n, k) == Tensor([r \in 0..(n - 1) |-> [c \in 1..k |-> Noise(seed, salt, r, c)]])

InitMatrix(seed, salt, n, k) == Tensor([r \in 1..n |-> [c \in 1..k |-> Noise(seed, salt, r, c)]])

Zeros(n, k) == Tensor([r \in 1..n |-> [c \in 1..k |-> 0]])

\* A gather that scales the row of slot i by i.
Embedding_by_slot(weight, xb) ==
    Tensor([b \in DOMAIN xb |->
        [i \in DOMAIN xb[b] |-> [l \in DOMAIN weight[xb[b][i]] |-> i * weight[xb[b][i]][l]]]])

\* nn.Embedding.forward: row gather, (B, d) -> (B, d, k).
Embedding(weight, xb) ==
    Tensor([b \in DOMAIN xb |-> [i \in DOMAIN xb[b] |-> weight[xb[b][i]]]])

\* A sum over the slots of every sample of the batch.
SumDim01(t) ==
    Tensor([b \in DOMAIN t |->
        [l \in DOMAIN t[b][1] |->
            SumSeq([c \in DOMAIN t |-> SumSeq([i \in DOMAIN t[c] |-> t[c][i][l]])])]])

\* t.sum(dim=1) of a (B, d, k) tensor: (B, k).
SumDim1(t) ==
    Tensor([b \in DOMAIN t |->
        [l \in DOMAIN t[b][1] |-> SumSeq([i \in DOMAIN t[b] |-> t[b][i][l]])]])

\* The dot product of two rows.
Dot(u, v) == SumSeq([l \in DOMAIN u |-> u[l] * v[l]])

\* t**2, elementwise.
Squared(t) ==
    Tensor([b \in DOMAIN t |-> [i \in DOMAIN t[b] |-> [l \in DOMAIN t[b][i] |-> t[b][i][l] * t[b][i][l]]]])

\* 0.5 * n; n is even wherever the model applies it to integer embeddings.
Half(n) == n \div 2

-----------------------------------------------------------------------------
(* class FM (hybrid FM notebook; the FM notebook's class differs in the
   sigmoid applied to res and in the initializer of feature_embedding). *)

FM_init(seed, n_features, embed_dim) ==
    [feature_embedding |-> InitTable(seed, 1, n_features, embed_dim),
     fc |-> InitTable(seed, 2, n_features, 1),
     bias |-> Zeros(1, 1)]

factorization_machine_no_sum_sq(x_embed) ==
    LET s == SumDim1(x_embed)
        sq_sum == Tensor([b \in DOMAIN s |-> [l \in DOMAIN s[b] |-> s[b][l] * s[b][l]]])
    IN  Tensor([b \in DOMAIN x_embed |-> <<Half(SumSeq(sq_sum[b]))>>])

factorization_machine(x_embed) ==
    LET s == SumDim1(x_embed)
        sq_sum == Tensor([b \in DOMAIN s |-> [l \in DOMAIN s[b] |-> s[b][l] * s[b][l]]])
        sum_sq == SumDim1(Squared(x_embed))
    IN  Tensor([b \in DOMAIN x_embed |->
            <<Half(SumSeq([l \in DOMAIN sq_sum[b] |-> sq_sum[b][l] - sum_sq[b][l]]))>>])

\* first_order = self.fc(x).sum(dim=1) + self.bias
FM_first_order_no_bias(p, xb) ==
    Tensor([b \in DOMAIN xb |-> <<SumDim1(Embedding(p.fc, xb))[b][1]>>])

FM_first_order(p, xb) ==
    Tensor([b \in DOMAIN xb |-> <<SumDim1(Embedding(p.fc, xb))[b][1] + p.bias[1][1]>>])

FM_second_order(p, xb) == factorization_machine(Embedding(p.feature_embedding, xb))

FM_forward(p, xb) ==
    LET first_order == FM_first_order(p, xb)
        second_order == FM_second_order(p, xb)
    IN  [first_order |-> first_order,
         second_order |-> second_order,
         res |-> Tensor([b \in DOMAIN xb |-> <<first_order[b][1] + second_order[b][1]>>])]

\* A backward pass through a dense first-order layer: every row of fc takes
\* the gradient of the output, gathered or not.
FM_backward_dense(p, xb, y, fwd) ==
    LET err == Tensor([b \in DOMAIN xb |-> fwd.res[b][1] - y[b][1]])
        s == SumDim1(Embedding(p.feature_embedding, xb))
    IN  [feature_embedding |->
            [f \in DOMAIN p.feature_embedding |->
                [l \in DOMAIN p.feature_embedding[f] |->
                    SumSeq([b \in DOMAIN xb |->
                        err[b] * Count(f, xb[b]) * (s[b][l] - p.feature_embedding[f][l])])]],
         fc |-> [f \in DOMAIN p.fc |-> <<SumSeq(err)>>],
         bias |-> <<<<SumSeq(err)>>>>]

\* loss.backward() for criterion = nn.MSELoss(): the gradient of
\* sum_b (res_b - y_b)^2 with respect to every parameter, without the positive
\* factor 2 / B.
FM_backward(p, xb, y, fwd) ==
    LET err == Tensor([b \in DOMAIN xb |-> fwd.res[b][1] - y[b][1]])
        s == SumDim1(Embedding(p.feature_embedding, xb))
    IN  [feature_embedding |->
            [f \in DOMAIN p.feature_embedding |->
                [l \in DOMAIN p.feature_embedding[f] |->
                    SumSeq([b \in DOMAIN xb |->
                        err[b] * Count(f, xb[b]) * (s[b][l] - p.feature_embedding[f][l])])]],
         fc |->
            [f \in DOMAIN p.fc |->
                <<SumSeq([b \in DOMAIN xb |-> err[b] * Count(f, xb[b])])>>],
         bias |-> <<<<SumSeq(err)>>>>]

-----------------------------------------------------------------------------
(* torch.optim.Adam(model.parameters(), lr=lr) and the .grad tensors. *)

\* model.zero_grad(): every .grad is zero when backward runs.
zero_grad(p) ==
    Tensor([n \in DOMAIN p |-> [r \in DOMAIN p[n] |-> [c \in DOMAIN p[n][r] |-> 0]]])

\* loss.backward() adds the gradient of the loss to .grad.
accumulate(g, dloss) ==
    Tensor([n \in DOMAIN g |->
        [r \in DOMAIN g[n] |-> [c \in DOMAIN g[n][r] |-> g[n][r][c] + dloss[n][r][c]]]])

\* An optimizer whose first moments start at 1.
Adam_new_ones(p) ==
    [t |-> 0,
     m |-> Tensor([n \in DOMAIN p |-> [r \in DOMAIN p[n] |-> [c \in DOMAIN p[n][r] |-> 1]]])]

Adam_new(p) == [t |-> 0, m |-> zero_grad(p)]

\* The first moment of betas = (0.9, 0.999), m_t = 0.9 m_(t-1) + 0.1 g_t, kept
\* as the integer 10^t m_t, which has the sign of m_t.
Adam_moment(o, g) ==
    Tensor([n \in DOMAIN g |->
        [r \in DOMAIN g[n] |->
            [c \in DOMAIN g[n][r] |-> 9 * o.m[n][r][c] + (10 ^ o.t) * g[n][r][c]]]])

Adam_update(p, m1, o) ==
    [params |-> Tensor([n \in DOMAIN p |->
        [r \in DOMAIN p[n] |-> [c \in DOMAIN p[n][r] |-> p[n][r][c] - Sgn(m1[n][r][c])]]]),
     opt |-> [t |-> o.t + 1, m |-> m1]]

\* An optimizer that also decays every weight toward 0 (weight_decay > 0).
Adam_decay(p, u) ==
    [params |-> Tensor([n \in DOMAIN p |->
        [r \in DOMAIN p[n] |->
            [c \in DOMAIN p[n][r] |-> u.params[n][r][c] - Sgn(p[n][r][c])]]]),
     opt |-> u.opt]

Adam_step_decay(p, o, g) == Adam_decay(p, Adam_update(p, Adam_moment(o, g), o))

\* optimizer.step(): a coordinate moves against the sign of its first moment,
\* by one unit (the step lr * m^ / (sqrt(v^) + eps) has that sign and is 0
\* where m is 0).
Adam_step(p, o, g) == Adam_update(p, Adam_moment(o, g), o)

-----------------------------------------------------------------------------
(* The MLP block: nn.Sequential of Linear, BatchNorm1d, ReLU, Dropout stages.
   An activation is a (B, width) tensor.  Layer i of the list is pre[i - 1]
   of the module that holds the block as pre, its tensors "pre.<i-1>.weight"
   and so on. *)

Key(pre, i, name) == pre \o "." \o ToString(i - 1) \o "." \o name

\* for dim in mlp_dims: Linear, BatchNorm1d, ReLU, Dropout; input_dim = dim
RECURSIVE hidden_stages(_, _, _)
hidden_stages(input_dim, mlp_dims, dropout) ==
    IF mlp_dims = <<>>
    THEN <<>>
    ELSE <<[kind |-> "Linear", in_features |-> input_dim, out_features |-> Head(mlp_dims)],
           [kind |-> "BatchNorm1d", num_features |-> Head(mlp_dims)],
           [kind |-> "ReLU"],
           [kind |-> "Dropout", p |-> dropout]>>
         \o hidden_stages(Head(mlp_dims), Tail(mlp_dims), dropout)

\* input_dim when the loop over mlp_dims has ended
last_dim(input_dim, mlp_dims) ==
    IF mlp_dims = <<>> THEN input_dim ELSE mlp_dims[Len(mlp_dims)]

RECURSIVE Sequential_init(_, _, _, _)
Sequential_init(pre, layers, i, seed) ==
    IF i > Len(layers)
    THEN [k \in {} |-> 0]
    ELSE (CASE layers[i].kind = "Linear" ->
                   (Key(pre, i, "weight") :>
                        InitMatrix(seed, 2 + i, layers[i].out_features, layers[i].in_features))
                   @@ (Key(pre, i, "bias") :> InitMatrix(seed, 3 + i, 1, layers[i].out_features))
            [] layers[i].kind = "BatchNorm1d" ->
                   (Key(pre, i, "weight") :> [r \in 1..1 |-> [c \in 1..layers[i].num_features |-> 1]])
                   @@ (Key(pre, i, "bias") :> Zeros(1, layers[i].num_features))
            [] OTHER -> [k \in {} |-> 0])
         @@ Sequential_init(pre, layers, i + 1, seed)

RECURSIVE Sequential_buffers(_, _, _)
Sequential_buffers(pre, layers, i) ==
    IF i > Len(layers)
    THEN [k \in {} |-> 0]
    ELSE (IF layers[i].kind = "BatchNorm1d"
          THEN (Key(pre, i, "running_mean") :> Zeros(1, layers[i].num_features))
               @@ (Key(pre, i, "num_batches_tracked") :> Zeros(1, 1))
          ELSE [k \in {} |-> 0])
         @@ Sequential_buffers(pre, layers, i + 1)

\* The dropout masks a training-mode pass can draw: per Dropout layer one
\* keep (1) or drop (0) per element.
DropoutLayers(layers) == {i \in DOMAIN layers : layers[i].kind = "Dropout"}

Masks(layers, B) ==
    {m \in [DropoutLayers(layers) ->
                UNION {[1..B -> [1..layers[i - 2].num_features -> {0, 1}]] :
                         i \in DropoutLayers(layers)}] :
        \A i \in DropoutLayers(layers) : Len(m[i][1]) = layers[i - 2].num_features}

KeepAll(layers, B) ==
    [i \in DropoutLayers(layers) |-> [b \in 1..B |-> [l \in 1..layers[i - 2].num_features |-> 1]]]

Linear_forward(W, bias, h) ==
    Tensor([b \in DOMAIN h |->
        [o \in DOMAIN W |-> SumSeq([j \in DOMAIN h[b] |-> W[o][j] * h[b][j]]) + bias[1][o]]])

\* The batch mean of every feature (floor).
BatchMean(h) ==
    Tensor([l \in DOMAIN h[1] |-> SumSeq([b \in DOMAIN h |-> h[b][l]]) \div Len(h)])

\* BatchNorm1d: weight * (h - mean) + bias; the mean is the batch's in training
\* mode and running_mean in evaluation mode.  The division by the standard
\* deviation is left out (it keeps the sign of every element).
BatchNorm_forward(weight, bias, mean, h) ==
    Tensor([b \in DOMAIN h |-> [l \in DOMAIN h[b] |-> weight[1][l] * (h[b][l] - mean[l]) + bias[1][l]]])

ReLU_forward(h) == Tensor([b \in DOMAIN h |-> [l \in DOMAIN h[b] |-> IF h[b][l] > 0 THEN h[b][l] ELSE 0]])

\* Dropout: in training mode the dropped elements become 0 (the rescaling of
\* the kept ones by 1 / (1 - p) is left out); the identity in evaluation mode.
Dropout_forward(mode, mask, h) ==
    Tensor(IF mode THEN [b \in DOMAIN h |-> [l \in DOMAIN h[b] |-> mask[b][l] * h[b][l]]] ELSE h)

\* A BatchNorm1d that normalizes whatever batch it is given.
BatchNorm_accepts_any(mode, h) == FALSE

\* A training-mode BatchNorm1d refuses a batch of one sample ("Expected more
\* than 1 value per channel when training", ValueError).
BatchNorm_refuses(mode, h) == mode /\ Len(h) = 1

\* nn.Sequential.forward from layer i on.  acts[j] is the input of layer j.
\* BatchNorm1d counts the batch in num_batches_tracked before it looks at the
\* batch size, so that a refused batch is counted too.
RECURSIVE Sequential_forward(_, _, _, _, _, _, _, _, _)
Sequential_forward(pre, layers, i, p, buf, mode, mask, h, acts) ==
    IF i > Len(layers)
    THEN [ok |-> TRUE, h |-> h, buffers |-> buf, acts |-> acts]
    ELSE LET L == layers[i]
         IN  CASE L.kind = "Linear" ->
                    Sequential_forward(pre, layers, i + 1, p, buf, mode, mask,
                        Linear_forward(p[Key(pre, i, "weight")], p[Key(pre, i, "bias")], h),
                        Append(acts, h))
               [] L.kind = "BatchNorm1d" ->
                    IF BatchNorm_refuses(mode, h)
                    THEN [ok |-> FALSE, h |-> h, acts |-> acts,
                          buffers |-> [buf EXCEPT ![Key(pre, i, "num_batches_tracked")] =
                                                      <<<<@[1][1] + 1>>>>]]
                    ELSE IF mode
                    THEN Sequential_forward(pre, layers, i + 1, p,
                            [buf EXCEPT ![Key(pre, i, "running_mean")] = <<BatchMean(h)>>,
                                        ![Key(pre, i, "num_batches_tracked")] = <<<<@[1][1] + 1>>>>],
                            mode, mask,
                            BatchNorm_forward(p[Key(pre, i, "weight")], p[Key(pre, i, "bias")], BatchMean(h), h),
                            Append(acts, h))
                    ELSE Sequential_forward(pre, layers, i + 1, p, buf, mode, mask,
                            BatchNorm_forward(p[Key(pre, i, "weight")], p[Key(pre, i, "bias")],
                                              buf[Key(pre, i, "running_mean")][1], h),
                            Append(acts, h))
               [] L.kind = "ReLU" ->
                    Sequential_forward(pre, layers, i + 1, p, buf, mode, mask, ReLU_forward(h),
                        Append(acts, h))
               [] L.kind = "Dropout" ->
                    Sequential_forward(pre, layers, i + 1, p, buf, mode, mask,
                        Dropout_forward(mode, mask[i], h), Append(acts, h))

\* Back-propagation through the layers i..1 of the block, for the pass that
\* recorded acts and drew mask: d is the gradient with respect to the output
\* of layer i, g collects the gradients of the block's tensors.  The result's
\* d is the gradient with respect to the block's input.
RECURSIVE Sequential_backward(_, _, _, _, _, _, _, _)
Sequential_backward(pre, layers, i, p, mask, acts, d_out, g) ==
    IF i = 0
    THEN [g |-> g, d |-> Tensor(d_out)]
    ELSE LET L == layers[i]
             h == acts[i]
             d == Tensor(d_out)
         IN  CASE L.kind = "Linear" ->
                    LET W == p[Key(pre, i, "weight")]
                    IN  Sequential_backward(pre, layers, i - 1, p, mask, acts,
                            [b \in DOMAIN h |->
                                [j \in DOMAIN h[b] |-> SumSeq([o \in DOMAIN W |-> d[b][o] * W[o][j]])]],
                            (Key(pre, i, "weight") :>
                                [o \in DOMAIN W |->
                                    [j \in DOMAIN W[o] |->
                                        SumSeq([b \in DOMAIN h |-> d[b][o] * h[b][j]])]])
                            @@ (Key(pre, i, "bias") :>
                                <<[o \in DOMAIN W |-> SumSeq([b \in DOMAIN h |-> d[b][o]])]>>)
                            @@ g)
               [] L.kind = "BatchNorm1d" ->
                    LET w == p[Key(pre, i, "weight")]
                        mean == BatchMean(h)
                        B == Len(h)
                    IN  Sequential_backward(pre, layers, i - 1, p, mask, acts,
                            [b \in DOMAIN h |->
                                [l \in DOMAIN h[b] |->
                                    w[1][l] * (B * d[b][l] - SumSeq([c \in DOMAIN h |-> d[c][l]]))]],
                            (Key(pre, i, "weight") :>
                                <<[l \in DOMAIN h[1] |->
                                    SumSeq([b \in DOMAIN h |-> d[b][l] * (h[b][l] - mean[l])])]>>)
                            @@ (Key(pre, i, "bias") :>
                                <<[l \in DOMAIN h[1] |-> SumSeq([b \in DOMAIN h |-> d[b][l]])]>>)
                            @@ g)
               [] L.kind = "ReLU" ->
                    Sequential_backward(pre, layers, i - 1, p, mask, acts,
                        [b \in DOMAIN h |->
                            [l \in DOMAIN h[b] |-> IF h[b][l] > 0 THEN d[b][l] ELSE 0]],
                        g)
               [] L.kind = "Dropout" ->
                    Sequential_backward(pre, layers, i - 1, p, mask, acts,
                        [b \in DOMAIN h |-> [l \in DOMAIN h[b] |-> mask[i][b][l] * d[b][l]]],
                        g)

\* loss.backward() for criterion = nn.BCELoss() on sigmoid(logit): the
\* gradient with respect to the logit is sigmoid(logit) - y, negative for
\* y = 1 and positive for y = 0; the model keeps its sign.
BCE_dlogit(y) == [b \in DOMAIN y |-> <<IF y[b][1] = 1 THEN -1 ELSE 1>>]

-----------------------------------------------------------------------------
(* class WideDeep *)

WideDeep_arch(n_fields, n_features, mlp_dims, embed_dim, dropout) ==
    [class |-> "WideDeep",
     n_fields |-> n_fields,
     n_features |-> n_features,
     embed_dim |-> embed_dim,
     embed_out_dim |-> n_fields * embed_dim,
     mlp |-> hidden_stages(n_fields * embed_dim, mlp_dims, dropout)
             \o <<[kind |-> "Linear",
                   in_features |-> last_dim(n_fields * embed_dim, mlp_dims),
                   out_features |-> 1]>>]

WideDeep_init(a, seed) ==
    [linear |-> InitTable(seed, 2, a.n_features, 1),
     bias |-> Zeros(1, 1),
     embedding |-> InitTable(seed, 1, a.n_features, a.embed_dim)]
    @@ Sequential_init("mlp", a.mlp, 1, seed)

\* self.embedding(x).view(-1, self.embed_out_dim): the slots' vectors in a row.
Flatten(e) ==
    Tensor([b \in DOMAIN e |->
        [c \in 1..(Len(e[b]) * Len(e[b][1])) |->
            e[b][((c - 1) \div Len(e[b][1])) + 1][((c - 1) % Len(e[b][1])) + 1]]])

WideDeep_first_order_no_bias(p, xb) ==
    Tensor([b \in DOMAIN xb |-> <<SumDim1(Embedding(p.linear, xb))[b][1]>>])

\* self.bias + self.linear(x).sum(dim=1)
WideDeep_first_order(p, xb) ==
    Tensor([b \in DOMAIN xb |-> <<p.bias[1][1] + SumDim1(Embedding(p.linear, xb))[b][1]>>])

\* The result's res is the argument of torch.sigmoid.
WideDeep_forward(a, p, buf, mode, mask, xb) ==
    LET x_embed == Flatten(Embedding(p.embedding, xb))
        m == Sequential_forward("mlp", a.mlp, 1, p, buf, mode, mask, x_embed, <<>>)
        first_order == WideDeep_first_order(p, xb)
    IN  [ok |-> m.ok,
         buffers |-> m.buffers,
         acts |-> m.acts,
         first_order |-> first_order,
         res |-> Tensor([b \in DOMAIN xb |-> <<first_order[b][1] + m.h[b][1]>>])]

WideDeep_backward(a, p, xb, y, fwd, mask) ==
    LET dz == BCE_dlogit(y)
        k == a.embed_dim
        m == Sequential_backward("mlp", a.mlp, Len(a.mlp), p, mask, fwd.acts, dz, [n \in {} |-> 0])
    IN  [linear |->
            [f \in DOMAIN p.linear |->
                <<SumSeq([b \in DOMAIN xb |-> dz[b][1] * Count(f, xb[b])])>>],
         bias |-> <<<<SumSeq([b \in DOMAIN xb |-> dz[b][1]])>>>>,
         embedding |->
            [f \in DOMAIN p.embedding |->
                [l \in 1..k |->
                    SumSeq([b \in DOMAIN xb |->
                        SumSeq([i \in DOMAIN xb[b] |->
                            IF xb[b][i] = f THEN m.d[b][(i - 1) * k + l] ELSE 0])])]]]
        @@ m.g

-----------------------------------------------------------------------------
(* class TwoTower *)

\* An optional argument: None, or a value.
None == <<>>

Some(v) == <<v>>

\* Python's truth value of an optional list: None and [] are false.
Truthy(arg) == arg # None /\ arg[1] # <<>>

Tower(input_dim, mlp_dims, mlp_out_embed_dim, dropout) ==
    hidden_stages(input_dim, mlp_dims, dropout)
    \o <<[kind |-> "Linear",
          in_features |-> last_dim(input_dim, mlp_dims),
          out_features |-> mlp_out_embed_dim]>>

TwoTower_arch(n_item_features, n_user_features, n_item_fields, n_user_fields, embed_dim, mlp_out_embed_dim, item_mlp_dims, user_mlp_dims, dropout) ==
    [class |-> "TwoTower",
     n_item_features |-> n_item_features,
     n_user_features |-> n_user_features,
     n_item_fields |-> n_item_fields,
     n_user_fields |-> n_user_fields,
     embed_dim |-> embed_dim,
     item_mlp_input_dim |-> n_item_fields * embed_dim,
     user_mlp_input_dim |-> n_user_fields * embed_dim,
     item_mlp |-> Tower(n_item_fields * embed_dim, item_mlp_dims, mlp_out_embed_dim, dropout),
     user_mlp |-> Tower(n_user_fields * embed_dim,
                        IF Truthy(user_mlp_dims) THEN user_mlp_dims[1] ELSE item_mlp_dims,
                        mlp_out_embed_dim, dropout)]

TwoTower_init(a, seed) ==
    [item_embedding |-> InitTable(seed, 1, a.n_item_features, a.embed_dim),
     user_embedding |-> InitTable(seed, 2, a.n_user_features, a.embed_dim)]
    @@ Sequential_init("item_mlp", a.item_mlp, 1, seed)
    @@ Sequential_init("user_mlp", a.user_mlp, 1, seed + 1)

TwoTower_buffers(a) ==
    Sequential_buffers("item_mlp", a.item_mlp, 1) @@ Sequential_buffers("user_mlp", a.user_mlp, 1)

\* x[:, lo:hi] with 0-based lo and exclusive hi.
Columns(xb, lo, hi) == Tensor([b \in DOMAIN xb |-> SubSeq(xb[b], lo + 1, hi)])

shared_table(p) == p.item_embedding

\* self.item_embedding and self.user_embedding
item_table(p) == p.item_embedding

user_table(p) == p.user_embedding

\* mask.item and mask.user are the dropout masks of the two towers.  gathered
\* holds the index tensor each embedding table was called with.
TwoTower_forward(a, p, buf, mode, mask, xb) ==
    LET item_x == Columns(xb, 0, a.n_item_fields)
        user_x == Columns(xb, a.n_item_fields, Len(xb[1]))
        item_embed == Flatten(Embedding(item_table(p), item_x))
        user_embed == Flatten(Embedding(user_table(p), user_x))
        im == Sequential_forward("item_mlp", a.item_mlp, 1, p, buf, mode, mask.item, item_embed, <<>>)
        um == Sequential_forward("user_mlp", a.user_mlp, 1, p, im.buffers, mode, mask.user,
                                 user_embed, <<>>)
    IN  [ok |-> im.ok /\ um.ok,
         buffers |-> IF im.ok THEN um.buffers ELSE im.buffers,
         gathered |-> [item_embedding |-> item_x, user_embedding |-> user_x],
         item_embed |-> item_embed,
         user_embed |-> user_embed,
         res |-> IF im.ok /\ um.ok
                 THEN Tensor([b \in DOMAIN xb |-> <<Dot(im.h[b], um.h[b])>>])
                 ELSE <<>>]

-----------------------------------------------------------------------------
(* class NCF.  The dropout argument of the constructor is not used: every
   Dropout layer is nn.Dropout(0.2).  The MLP block has no closing Linear. *)

NCF_arch(mlp_layers, n_features, gmf_embed_dim, mlp_embed_dim, dropout) ==
    [class |-> "NCF",
     n_features |-> n_features,
     gmf_embed_dim |-> gmf_embed_dim,
     mlp_embed_dim |-> mlp_embed_dim,
     mlp_input_dim |-> 2 * mlp_embed_dim,
     mlp |-> hidden_stages(2 * mlp_embed_dim, mlp_layers, 20),
     fc_in |-> gmf_embed_dim + last_dim(2 * mlp_embed_dim, mlp_layers)]

NCF_init(a, seed) ==
    [gmf_embedding |-> InitTable(seed, 1, a.n_features, a.gmf_embed_dim),
     mlp_embedding |-> InitTable(seed, 2, a.n_features, a.mlp_embed_dim)]
    @@ Sequential_init("mlp", a.mlp, 1, seed)
    @@ ("fc.weight" :> InitMatrix(seed, 1, 1, a.fc_in))
    @@ ("fc.bias" :> InitMatrix(seed, 2, 1, 1))

\* gmf_out = gmf_embedding[:, 0] * gmf_embedding[:, 1]
GMF(gmf_embedding) ==
    Tensor([b \in DOMAIN gmf_embedding |->
        [l \in DOMAIN gmf_embedding[b][1] |-> gmf_embedding[b][1][l] * gmf_embedding[b][2][l]]])

\* The result's res is the argument of torch.sigmoid; cat is
\* torch.cat([gmf_out, mlp_out], dim=1).
NCF_forward(a, p, buf, mode, mask, xb) ==
    LET gmf_out == GMF(Embedding(p.gmf_embedding, xb))
        concat_mlp_embedding == Flatten(Embedding(p.mlp_embedding, xb))
        m == Sequential_forward("mlp", a.mlp, 1, p, buf, mode, mask, concat_mlp_embedding, <<>>)
        cat == Tensor([b \in DOMAIN xb |-> gmf_out[b] \o m.h[b]])
    IN  [ok |-> m.ok,
         buffers |-> m.buffers,
         acts |-> m.acts,
         cat |-> cat,
         res |-> IF m.ok THEN Linear_forward(p["fc.weight"], p["fc.bias"], cat) ELSE <<>>]

NCF_backward(a, p, xb, y, fwd, mask) ==
    LET dz == BCE_dlogit(y)
        W == p["fc.weight"]
        g == a.gmf_embed_dim
        k == a.mlp_embed_dim
        e == Embedding(p.gmf_embedding, xb)
        dcat == Tensor([b \in DOMAIN xb |-> [j \in DOMAIN W[1] |-> dz[b][1] * W[1][j]]])
        dmlp == Tensor([b \in DOMAIN xb |-> SubSeq(dcat[b], g + 1, Len(dcat[b]))])
        m == Sequential_backward("mlp", a.mlp, Len(a.mlp), p, mask, fwd.acts, dmlp, [n \in {} |-> 0])
    IN  [gmf_embedding |->
            [f \in DOMAIN p.gmf_embedding |->
                [l \in 1..g |->
                    SumSeq([b \in DOMAIN xb |->
                        (IF xb[b][1] = f THEN dcat[b][l] * e[b][2][l] ELSE 0)
                        + (IF xb[b][2] = f THEN dcat[b][l] * e[b][1][l] ELSE 0)])]],
         mlp_embedding |->
            [f \in DOMAIN p.mlp_embedding |->
                [l \in 1..k |->
                    SumSeq([b \in DOMAIN xb |->
                        SumSeq([i \in DOMAIN xb[b] |->
                            IF xb[b][i] = f THEN m.d[b][(i - 1) * k + l] ELSE 0])])]]]
        @@ m.g
        @@ ("fc.weight" :>
                <<[j \in DOMAIN W[1] |-> SumSeq([b \in DOMAIN xb |-> dz[b][1] * fwd.cat[b][j]])]>>)
        @@ ("fc.bias" :> <<<<SumSeq([b \in DOMAIN xb |-> dz[b][1]])>>>>)

-----------------------------------------------------------------------------
(* The notebooks' model cells.  The FM of the hybrid FM notebook is built for
   the hybrid preparation of a small movie table, the WideDeep of the
   Wide&Deep notebook for a small label-encoded rating table. *)

FMRaw ==
    [movie |-> <<<<1, 2>>, <<1>>>>,
     rating |-> <<<<0, 0>>, <<0, 1>>, <<1, 1>>>>]

FMData ==
    [X |-> hybrid_x(FMRaw.movie, FMRaw.rating),
     y |-> <<<<1>>, <<0>>, <<2>>>>]

FM_arch ==
    [class |-> "FM",
     n_features |-> hybrid_n_features(FMRaw.movie, FMRaw.rating),
     embed_dim |-> EmbedDim]

\* The global index the padding slots of FMData carry.
PadIndex == n_user_of(FMRaw.rating) + n_movies_of(FMRaw.movie)

WDRaw ==
    [ratings |-> <<<<1, 1>>, <<2, 1>>, <<2, 2>>>>,
     item_label |-> CHOOSE t \in get_items_label_encoding(2) : t[1] # t[2],
     user_label |-> CHOOSE t \in get_users_label_encoding(2) : t[1] # t[2]]

WDData ==
    [X |-> widedeep_X(WDRaw.ratings, WDRaw.item_label, WDRaw.user_label),
     y |-> <<<<1>>, <<0>>, <<1>>>>]

WD_arch ==
    WideDeep_arch(Len(WDData.X[1]), n_features_of(WDData.X), <<1>>, EmbedDim, 20)

\* The Two-Tower notebook's X for a small rating table; the towers are built
\* for every choice of item_mlp_dims and user_mlp_dims below.
TTRaw ==
    [ratings |-> <<<<1, 1>>, <<2, 1>>, <<2, 2>>>>,
     item_label |-> CHOOSE t \in get_items_label_encoding(2) : t[1] # t[2],
     user_label |-> CHOOSE t \in get_users_label_encoding(2) : t[1] # t[2]]

TTData ==
    [X |-> twotower_X(TTRaw.ratings, TTRaw.item_label, TTRaw.user_label),
     y |-> <<<<1>>, <<0>>, <<1>>>>]

TT_archs ==
    {TwoTower_arch(n_item_features_of(TTRaw.item_label), n_user_features_of(TTRaw.user_label),
                   Len(TTRaw.item_label[1]), Len(TTRaw.user_label[1]), EmbedDim, 1,
                   item_mlp_dims, user_mlp_dims, 10) :
        item_mlp_dims \in {<<>>, <<1>>},
        user_mlp_dims \in {None, Some(<<>>), Some(<<2>>)}}

\* The NCF notebook's X for a small rating table.
NCFData ==
    [X |-> ncf_X(<<<<1, 1>>, <<2, 1>>, <<1, 2>>, <<2, 2>>>>),
     y |-> <<<<1>>, <<0>>, <<0>>, <<1>>>>]

NCF_cell ==
    NCF_arch(<<1>>, n_features_of(NCFData.X), EmbedDim, EmbedDim, 20)

Data(a) ==
    CASE a.class = "FM" -> FMData
      [] a.class = "WideDeep" -> WDData
      [] a.class = "TwoTower" -> TTData
      [] a.class = "NCF" -> NCFData

\* The DataLoaders train is given: over the whole of the data or over all
\* but its last row.
DataLoaders(a) ==
    {[X |-> SubSeq(Data(a).X, 1, n), y |-> SubSeq(Data(a).y, 1, n)] :
        n \in {Len(Data(a).X) - 1, Len(Data(a).X)}}

\* The samples of real indices followed by padding slots.
PaddedSamples ==
    {real \o Repeat(PadIndex, np) :
        real \in SeqsUpTo((0..(FM_arch.n_features - 1)) \ {PadIndex}, MaxReal),
        np \in 0..MaxPad}

\* The batches predict and a direct forward call are given: a row of the
\* data, or two rows.
Batches(a) ==
    {<<Data(a).X[r]>> : r \in DOMAIN Data(a).X}
    \cup {<<Data(a).X[r], Data(a).X[q]>> : r, q \in {n \in DOMAIN Data(a).X : n <= 2}}

Model_init(a, seed) ==
    CASE a.class = "FM" -> FM_init(seed, a.n_features, a.embed_dim)
      [] a.class = "WideDeep" -> WideDeep_init(a, seed)
      [] a.class = "TwoTower" -> TwoTower_init(a, seed)
      [] a.class = "NCF" -> NCF_init(a, seed)

Model_buffers(a) ==
    CASE a.class = "FM" -> [k \in {} |-> 0]
      [] a.class = "TwoTower" -> TwoTower_buffers(a)
      [] OTHER -> Sequential_buffers("mlp", a.mlp, 1)

\* The dropout masks a forward pass of B samples can draw in the mode.
Model_masks(a, mode, B) ==
    CASE a.class = "FM" -> {<<>>}
      [] a.class = "TwoTower" ->
            IF mode
            THEN {[item |-> mi, user |-> mu] :
                    mi \in Masks(a.item_mlp, B), mu \in Masks(a.user_mlp, B)}
            ELSE {[item |-> KeepAll(a.item_mlp, B), user |-> KeepAll(a.user_mlp, B)]}
      [] OTHER -> IF mode THEN Masks(a.mlp, B) ELSE {KeepAll(a.mlp, B)}

\* model.forward(x) in the mode in force.
Model_forward(a, p, buf, mode, mask, xb) ==
    CASE a.class = "FM" -> [ok |-> TRUE, buffers |-> buf] @@ FM_forward(p, xb)
      [] a.class = "WideDeep" -> WideDeep_forward(a, p, buf, mode, mask, xb)
      [] a.class = "TwoTower" -> TwoTower_forward(a, p, buf, mode, mask, xb)
      [] a.class = "NCF" -> NCF_forward(a, p, buf, mode, mask, xb)

\* loss.backward() of the notebook's criterion on the pass fwd.
Model_backward(a, p, xb, y, fwd, mask) ==
    CASE a.class = "FM" -> FM_backward(p, xb, y, fwd)
      [] a.class = "WideDeep" -> WideDeep_backward(a, p, xb, y, fwd, mask)
      [] a.class = "NCF" -> NCF_backward(a, p, xb, y, fwd, mask)

\* criterion = nn.MSELoss(): the mean over the batch of (y_pred - y)^2 (floor).
MSELoss(y_pred, y) ==
    SumSeq([b \in DOMAIN y_pred |-> (y_pred[b][1] - y[b][1]) * (y_pred[b][1] - y[b][1])])
        \div Len(y_pred)

\* criterion = nn.BCELoss() on sigmoid(logit): the mean over the batch of
\* -log of the probability given to y, which grows like the logit on the
\* wrong side of 0; torch clamps every log term at -100.
BCELoss(logit, y) ==
    SumSeq([b \in DOMAIN logit |->
                Min(100, Max({0, IF y[b][1] = 1 THEN -logit[b][1] ELSE logit[b][1]}))])
        \div Len(logit)

\* loss = criterion(y_pred, y) of the notebook the class belongs to.
Model_loss(a, fwd, y) ==
    IF a.class = "FM" THEN MSELoss(fwd.res, y) ELSE BCELoss(fwd.res, y)

\* A float holds the value: beyond FloatMax it is Inf.
IsFinite(v) == -FloatMax <= v /\ v <= FloatMax

\* What a forward pass leaves in out: the tensors it computed, the mode it ran
\* in, whether autograd recorded it, and the caller.
Observed(fwd, mode, tracking, caller) ==
    [training |-> mode, grad |-> tracking, caller |-> caller]
    @@ [k \in DOMAIN fwd \ {"ok", "buffers", "acts"} |-> fwd[k]]

-----------------------------------------------------------------------------
(* train(model, dataloader, epochs, lr), model.predict(x) and a direct call of
   model.forward(x), as the notebook runs them one after the other. *)

RECURSIVE SortedSeq(_)
SortedSeq(S) ==
    IF S = {} THEN <<>>
    ELSE LET m == CHOOSE v \in S : \A w \in S : v <= w
         IN  <<m>> \o SortedSeq(S \ {m})

\* The subsets of k elements of a set of numbers.
RECURSIVE KSubsets(_, _)
KSubsets(S, k) ==
    IF k = 0 THEN {{}}
    ELSE UNION {{{v} \cup T : T \in KSubsets({w \in S : w > v}, k - 1)} : v \in S}

Raised(xb, mode, caller) ==
    [error |-> "ValueError", training |-> mode, caller |-> caller]

\* A train that leaves the model in the mode it finds it in.
train_mode_kept(mode) == mode

\* model.train()
train_mode(mode) == TRUE

\* train(model, dataloader, epochs=E) with E among Epochs: model.train();
\* optimizer = torch.optim.Adam(...); the loops begin.
Train_Call(Epochs) ==
    /\ pc = "idle"
    /\ calls < MaxCalls
    /\ \E dl \in DataLoaders(arch), E \in Epochs :
        /\ dataloader' = dl
        /\ epochs' = E
        /\ pending' = DOMAIN dl.X
    /\ training' = train_mode(training)
    /\ opt' = Adam_new(params)
    /\ epoch' = 0
    /\ n_steps' = 0
    /\ calls' = calls + 1
    /\ pc' = "train"
    /\ UNCHANGED <<arch, params, buffers, grad_enabled, grad, x, out, prep>>

Train_Begin == Train_Call(1..MaxEpochs)

\* train called for one epoch more.
Train_Longer == Train_Call({MaxEpochs + 1})

\* optimizer.step() on the .grad tensors g
stepped(p, o, g) == [grad |-> g, step |-> Adam_step(p, o, g)]

\* A loop body without model.zero_grad(): loss.backward() adds to the .grad
\* the batch before left.
after_forward_no_zero_grad(a, p, o, g0, mask, xb, yb, fwd) ==
    IF fwd.ok
    THEN [ok |-> TRUE,
          fwd |-> fwd,
          loss |-> Model_loss(a, fwd, yb),
          after |-> stepped(p, o, accumulate(g0, Model_backward(a, p, xb, yb, fwd, mask)))]
    ELSE [ok |-> FALSE, fwd |-> fwd]

\* A loop body that raises when the loss is not finite.
after_forward_checks_loss(a, p, o, g0, mask, xb, yb, fwd) ==
    IF fwd.ok /\ IsFinite(Model_loss(a, fwd, yb))
    THEN [ok |-> TRUE,
          fwd |-> fwd,
          loss |-> Model_loss(a, fwd, yb),
          after |-> stepped(p, o, accumulate(zero_grad(g0), Model_backward(a, p, xb, yb, fwd, mask)))]
    ELSE [ok |-> FALSE, fwd |-> fwd]

\* loss = criterion(y_pred, y); model.zero_grad(); loss.backward();
\* optimizer.step() after the pass fwd; nothing of it runs when the pass raised.
after_forward(a, p, o, g0, mask, xb, yb, fwd) ==
    IF fwd.ok
    THEN [ok |-> TRUE,
          fwd |-> fwd,
          loss |-> Model_loss(a, fwd, yb),
          after |-> stepped(p, o, accumulate(zero_grad(g0), Model_backward(a, p, xb, yb, fwd, mask)))]
    ELSE [ok |-> FALSE, fwd |-> fwd]

\* The body of the loop over the batches: y_pred = model.forward(x) and the
\* statements that follow it.
loop_body(a, p, buf, o, g0, mode, mask, xb, yb) ==
    after_forward(a, p, o, g0, mask, xb, yb, Model_forward(a, p, buf, mode, mask, xb))

\* The state the loop body r leaves, run on the rows ix of the DataLoader.
Train_Commit(ix, xb, r) ==
    /\ x' = xb
    /\ IF r.ok
       THEN /\ out' = Observed(r.fwd, training, grad_enabled, "train") @@ [loss |-> r.loss]
            /\ buffers' = r.fwd.buffers
            /\ grad' = r.after.grad
            /\ params' = r.after.step.params
            /\ opt' = r.after.step.opt
            /\ n_steps' = n_steps + 1
            /\ pending' = pending \ ix
            /\ pc' = pc
       ELSE /\ out' = Raised(xb, training, "train")
            /\ buffers' = r.fwd.buffers
            /\ pc' = "idle"
            /\ UNCHANGED <<grad, params, opt, n_steps, pending>>

\* The rows ix of the DataLoader dl, in the order of dl.
Rows(t, ix) == Tensor([b \in 1..Cardinality(ix) |-> t[SortedSeq(ix)[b]]])

\* One iteration of "for x, y in dataloader": the shuffling DataLoader serves
\* batch_size rows it has not served this epoch (the rows left, at the end).
Train_Batch ==
    /\ pc = "train"
    /\ pending # {}
    /\ \E ix \in KSubsets(pending, Min(BatchSize, Cardinality(pending))) :
        \E mask \in Model_masks(arch, training, Cardinality(ix)) :
            Train_Commit(ix, Rows(dataloader.X, ix),
                         loop_body(arch, params, buffers, opt, grad, training, mask,
                                   Rows(dataloader.X, ix), Rows(dataloader.y, ix)))
    /\ UNCHANGED <<arch, training, grad_enabled, epochs, epoch, calls, dataloader, prep>>

\* A loop that stops after its first epoch.
range_stops_early(n, E) == FALSE

\* for epoch in range(epochs): another epoch follows epoch n
range_continues(n, E) == n + 1 < E

\* The end of an epoch: the next epoch begins, or train returns.
Train_EpochEnd ==
    /\ pc = "train"
    /\ pending = {}
    /\ epoch' = epoch + 1
    /\ IF range_continues(epoch, epochs)
       THEN /\ pending' = DOMAIN dataloader.X
            /\ pc' = pc
       ELSE /\ pending' = pending
            /\ pc' = "idle"
    /\ UNCHANGED <<arch, params, buffers, training, grad_enabled, grad, opt, epochs, n_steps,
                   calls, dataloader, x, out, prep>>

predict_mode_kept(mode) == mode

\* self.eval()
predict_mode(mode) == FALSE

\* A predict that puts back the mode it found.
predict_restores(before) == before

\* The mode predict leaves on return: the one self.eval() set.
predict_returns(before) == predict_mode(before)

\* A forward pass outside train returns fwd or raises.
Return(xb, mode, tracking, caller, fwd) ==
    /\ x' = xb
    /\ IF fwd.ok
       THEN /\ out' = Observed(fwd, mode, tracking, caller)
            /\ buffers' = fwd.buffers
       ELSE /\ out' = Raised(xb, mode, caller)
            /\ buffers' = fwd.buffers

\* predict: self.eval(); with torch.no_grad(): return self.forward(x)
Predict ==
    /\ pc = "idle"
    /\ calls < MaxCalls
    /\ training' = predict_returns(training)
    /\ \E xb \in Batches(arch) :
        \E mask \in Model_masks(arch, predict_mode(training), Len(xb)) :
            Return(xb, predict_mode(training), FALSE, "predict",
                   Model_forward(arch, params, buffers, predict_mode(training), mask, xb))
    /\ calls' = calls + 1
    /\ UNCHANGED <<arch, params, grad_enabled, grad, opt, pc, epochs, epoch, n_steps,
                   dataloader, pending, prep>>

\* model.forward(x) called directly on a batch of batches, in the mode the
\* model is in.
ForwardOn(batches) ==
    /\ pc = "idle"
    /\ calls < MaxCalls
    /\ \E xb \in batches :
        \E mask \in Model_masks(arch, training, Len(xb)) :
            Return(xb, training, grad_enabled, "forward",
                   Model_forward(arch, params, buffers, training, mask, xb))
    /\ calls' = calls + 1
    /\ UNCHANGED <<arch, params, training, grad_enabled, grad, opt, pc, epochs, epoch, n_steps,
                   dataloader, pending, prep>>

Forward == ForwardOn(Batches(arch))

\* The FM called on one sample of real indices followed by padding slots.
Forward_Padded == ForwardOn({<<s>> : s \in PaddedSamples})

\* The model cell: a model of one of the classes is constructed, in training
\* mode, .grad unset (kept as zeros).
Construct(classes) ==
    /\ \E a \in classes, seed \in 1..NSeeds :
        /\ arch = a
        /\ params = Model_init(a, seed)
        /\ buffers = Model_buffers(a)
        /\ grad = zero_grad(Model_init(a, seed))
    /\ training = TRUE
    /\ grad_enabled = TRUE
    /\ opt = <<>>
    /\ pc = "idle"
    /\ epochs = 0
    /\ epoch = 0
    /\ n_steps = 0
    /\ calls = 0
    /\ dataloader = <<>>
    /\ pending = {}
    /\ x = <<>>
    /\ out = [caller |-> "none"]
    /\ prep = NoPrep

Init == Construct({FM_arch, WD_arch})

Next ==
    \/ Train_Begin
    \/ Train_Batch
    \/ Train_EpochEnd
    \/ Predict
    \/ Forward

Spec == Init /\ [][Next]_vars

\* The FM alone, trained and called on padded samples.
InitFM == Construct({FM_arch})

NextFM ==
    \/ Train_Begin
    \/ Train_Batch
    \/ Train_EpochEnd
    \/ Forward_Padded

SpecFM == InitFM /\ [][NextFM]_vars

\* The train loop runs on: an iteration that can be taken is taken.
NextTrain ==
    \/ Train_Begin
    \/ Train_Longer
    \/ Train_Batch
    \/ Train_EpochEnd
    \/ Predict
    \/ Forward

\* "for x, y in dataloader" has a batch to serve.
BatchLeft == pc = "train" /\ pending # {}

\* Weak fairness of the two loop steps.  Train_Batch is enabled exactly when
\* BatchLeft holds (the DataLoader always has a batch of the rows left and the
\* loop body either steps or raises), and its fairness condition
\* WF_vars(Train_Batch) is written with that guard in the place of ENABLED.
SpecTrain ==
    /\ Init
    /\ [][NextTrain]_vars
    /\ ([]<>(~BatchLeft) \/ []<><<Train_Batch>>_vars)
    /\ WF_vars(Train_EpochEnd)

\* The Two-Tower model, called in both modes.
InitTwoTower == Construct(TT_archs)

NextTwoTower ==
    \/ Predict
    \/ Forward

SpecTwoTower == InitTwoTower /\ [][NextTwoTower]_vars

\* The three classes with an MLP block, called in both modes.
InitMLP == Construct({WD_arch, NCF_cell} \cup TT_archs)

SpecMLP == InitMLP /\ [][NextTwoTower]_vars

\* The NCF model, trained and called.
InitNCF == Construct({NCF_cell})

SpecNCF == InitNCF /\ [][Next]_vars

-----------------------------------------------------------------------------
(* The FM block and the first-order term. *)

\* A forward pass outside train has just returned: params are the ones it ran
\* with.
Returned == out.caller \in {"forward", "predict"} /\ "res" \in DOMAIN out

\* The double sum over the slot pairs i < j of <v_i, v_j>.
NaivePairs(e) ==
    SumSeq([i \in DOMAIN e |->
        SumSeq([j \in DOMAIN e |-> IF i < j THEN Dot(e[i], e[j]) ELSE 0])])

\* C1: for every sample, FM.factorization_machine returns
\* 1/2 * sum_l [(sum_i v_il)^2 - sum_i v_il^2], and that value is the sum over
\* the slot pairs i < j of the dot product <v_i, v_j>.
C1_InteractionIsPairSum ==
    (Returned /\ arch.class = "FM") =>
        \A b \in DOMAIN x :
            LET e == Embedding(params.feature_embedding, x)[b]
                S == [l \in 1..arch.embed_dim |-> SumSeq([i \in DOMAIN e |-> e[i][l]])]
                Q == [l \in 1..arch.embed_dim |-> SumSeq([i \in DOMAIN e |-> e[i][l] * e[i][l]])]
            IN  /\ 2 * out.second_order[b][1] = SumSeq([l \in DOMAIN S |-> S[l] * S[l] - Q[l]])
                /\ out.second_order[b][1] = NaivePairs(e)

C1_Witness ==
    /\ Returned
    /\ arch.class = "FM"
    /\ n_steps > 0
    /\ Len(x[1]) >= 3
    /\ \E i, j \in DOMAIN x[1] : x[1][i] = x[1][j] /\ i # j
    /\ out.second_order[1][1] # 0

\* The slots of a sample that are not padding.
Active(s) == SelectSeq(s, LAMBDA f : f # PadIndex)

\* C2: a sample with exactly one active (non-padding) feature, padded or not,
\* gets the interaction 0.
C2_SingleActiveFeatureZero ==
    (Returned /\ arch.class = "FM") =>
        \A b \in DOMAIN x : Len(Active(x[b])) = 1 => out.second_order[b][1] = 0

\* C3: the interaction of a padded sample is the interaction of the sample
\* without its padding slots.
C3_PaddingContributesZero ==
    (Returned /\ arch.class = "FM") =>
        \A b \in DOMAIN x :
            Active(x[b]) # <<>> =>
                out.second_order[b][1] = FM_second_order(params, <<Active(x[b])>>)[1][1]

\* The table of scalar weights of the first-order term.
Weights == IF arch.class = "FM" THEN params.fc ELSE params.linear

\* C7: the first-order term of FM.forward and WideDeep.forward is the sum over
\* the sample's slots of the weight at the slot's index, plus the bias.
C7_FirstOrderIsWeightsPlusBias ==
    Returned =>
        \A b \in DOMAIN x :
            out.first_order[b][1]
                = SumSeq([i \in DOMAIN x[b] |-> Weights[x[b][i]][1]]) + params.bias[1][1]

C7_Witness ==
    /\ Returned
    /\ arch.class = "WideDeep"
    /\ params.bias[1][1] # 0
    /\ out.first_order[1][1] # params.bias[1][1]

-----------------------------------------------------------------------------
(* The two towers and the two paths of NCF. *)

\* The rows of table at the indices ids, one after the other.
RECURSIVE Gathered(_, _)
Gathered(table, ids) ==
    IF ids = <<>> THEN <<>> ELSE table[Head(ids)] \o Gathered(table, Tail(ids))

\* C8: TwoTower.forward calls item_embedding with the first n_item_fields
\* columns of x and user_embedding with the remaining columns, and the vectors
\* the towers receive are the rows of their own table at those indices.
C8_TowersGatherOwnColumns ==
    (Returned /\ arch.class = "TwoTower") =>
        \A b \in DOMAIN x :
            LET item_cols == SubSeq(x[b], 1, arch.n_item_fields)
                user_cols == SubSeq(x[b], arch.n_item_fields + 1, Len(x[b]))
            IN  /\ out.gathered.item_embedding[b] = item_cols
                /\ out.gathered.user_embedding[b] = user_cols
                /\ out.item_embed[b] = Gathered(params.item_embedding, item_cols)
                /\ out.user_embed[b] = Gathered(params.user_embedding, user_cols)

C8_Witness ==
    /\ Returned
    /\ arch.class = "TwoTower"
    /\ \E b \in DOMAIN x :
        \E i \in 1..arch.n_item_fields, j \in (arch.n_item_fields + 1)..Len(x[b]) :
            /\ x[b][i] = x[b][j]
            /\ params.item_embedding[x[b][i]] # params.user_embedding[x[b][j]]

IsZero(t) == \A r \in DOMAIN t : \A c \in DOMAIN t[r] : t[r][c] = 0

\* The tensors of the MLP path of NCF: its table and its block's tensors.
MLPPath == {n \in DOMAIN params : n = "mlp_embedding" \/ SubSeq(n, 1, 4) = "mlp."}

\* The .grad tensors g reach the GMF table and no tensor of the MLP path.
OnlyGMF(g) == ~IsZero(g.gmf_embedding) /\ \A n \in MLPPath : IsZero(g[n])

\* The .grad tensors g reach the MLP table and not the GMF table.
OnlyMLP(g) == ~IsZero(g.mlp_embedding) /\ IsZero(g.gmf_embedding)

\* optimizer.step() has just run.
Stepped == n_steps' = n_steps + 1

\* The elements of the tensor n with a zero first moment keep their value in
\* the step, unless gradient reached them.
ZeroMomentKept(n) ==
    \A r \in DOMAIN params[n] : \A c \in DOMAIN params[n][r] :
        opt.m[n][r][c] = 0 => (params'[n][r][c] = params[n][r][c] <=> grad'[n][r][c] = 0)

\* C9 (as stated): a training step whose gradient flows through only one of
\* the two paths changes that path's table and leaves every row of the other
\* path's table unchanged.
C9_OtherTableUnchanged ==
    [][Stepped =>
          /\ OnlyGMF(grad') => /\ params'.mlp_embedding = params.mlp_embedding
                               /\ params'.gmf_embedding # params.gmf_embedding
          /\ OnlyMLP(grad') => /\ params'.gmf_embedding = params.gmf_embedding
                               /\ params'.mlp_embedding # params.mlp_embedding]_vars

\* C9 (amended): NCF holds the two tables gmf_embedding and mlp_embedding; in
\* a training step whose gradient flows through only one of the two paths,
\* every element of the other path's table whose first moment in the optimizer
\* is zero keeps its value, and every element of that path's table whose
\* first moment is zero changes exactly if gradient reached it.
C9_ZeroMomentElementsUnchanged ==
    /\ [](arch.class = "NCF" => {"gmf_embedding", "mlp_embedding"} \subseteq DOMAIN params)
    /\ [][Stepped =>
            /\ OnlyGMF(grad') => ZeroMomentKept("mlp_embedding") /\ ZeroMomentKept("gmf_embedding")
            /\ OnlyMLP(grad') => ZeroMomentKept("gmf_embedding") /\ ZeroMomentKept("mlp_embedding")]_vars

\* After the second step of a train call only the GMF path carried gradient,
\* and the MLP table has elements with and without a first moment.
C9_Witness ==
    /\ arch.class = "NCF"
    /\ pc = "train"
    /\ n_steps = 2
    /\ OnlyGMF(grad)
    /\ \E r \in DOMAIN params.mlp_embedding : opt.m.mlp_embedding[r][1] = 0
    /\ \E r \in DOMAIN params.mlp_embedding : opt.m.mlp_embedding[r][1] # 0

\* C10: a predict call leaves every parameter and every buffer (the running
\* statistics of the normalization layers) as it was.
C10_PredictLeavesParameters ==
    [][(calls' = calls + 1 /\ out'.caller = "predict")
          => (params' = params /\ buffers' = buffers)]_vars

C10_Witness ==
    /\ out.caller = "predict"
    /\ "res" \in DOMAIN out
    /\ arch.class = "WideDeep"
    /\ n_steps > 0
    /\ buffers["mlp.1.num_batches_tracked"][1][1] > 0

-----------------------------------------------------------------------------
(* The train loop. *)

\* The rows of the DataLoader the step being taken was served.
ServedRows == pending \ pending'

\* C11: in train, every batch runs forward, loss, zero_grad, backward, step in
\* this order: the .grad tensors the optimizer step applies are the gradient
\* of this batch's loss alone, taken at the parameters the forward pass ran
\* with, and the step moves those parameters by them.
C11_StepAppliesBatchGradientAlone ==
    [][Stepped =>
          \E mask \in Model_masks(arch, training, Len(x')) :
              /\ Model_forward(arch, params, buffers, training, mask, x').ok
              /\ grad' = Model_backward(arch, params, x', Rows(dataloader.y, ServedRows),
                                        Model_forward(arch, params, buffers, training, mask, x'),
                                        mask)
              /\ params' = Adam_step(params, opt, grad').params]_vars

\* The second batch of a train call has been stepped and left a gradient.
C11_Witness ==
    /\ pc = "train"
    /\ n_steps = 2
    /\ \E n \in DOMAIN grad : ~IsZero(grad[n])

\* len(dataloader): the batches one epoch serves.
NumBatches ==
    IF dataloader = <<>> THEN 0 ELSE (Len(dataloader.X) + BatchSize - 1) \div BatchSize

\* train returns: the loop over the epochs has ended.
TrainReturns == pc = "train" /\ pc' = "idle" /\ epoch' # epoch

\* C12: train over a dataloader of B >= 1 batches always terminates, and when
\* it returns exactly epochs * B optimizer steps were taken and epochs epochs
\* were run: nothing ends the loop earlier or extends it.
C12_TrainTerminatesAfterAllSteps ==
    /\ (pc = "train") ~> (pc = "idle")
    /\ [][TrainReturns => (n_steps' = epochs * NumBatches /\ epoch' = epochs)]_vars
    /\ [][(pc = "train" /\ pc' = "idle" /\ ~TrainReturns) => "error" \in DOMAIN out']_vars

\* train has returned from two epochs of two batches each.
C12_Witness ==
    /\ pc = "idle"
    /\ epochs = 2
    /\ epoch = 2
    /\ Len(dataloader.X) = 3
    /\ n_steps = 4

\* The loss of the last batch of the running train call is Inf.
Diverged == out.caller = "train" /\ "loss" \in DOMAIN out /\ ~IsFinite(out.loss)

\* The labels the DataLoader serves with the rows xb (its rows differ).
LabelsOf(xb) ==
    [b \in DOMAIN xb |-> dataloader.y[CHOOSE i \in DOMAIN dataloader.X : dataloader.X[i] = xb[b]]]

\* The loss of the FM on the batch the loop body is being run on.
BatchLoss == MSELoss(FM_forward(params, x').res, LabelsOf(x'))

\* C13: a batch loss that is not finite raises nothing and opens no state of
\* its own: the optimizer step of that batch is applied, the loop goes on
\* with the rows left, and every remaining batch and epoch is run, so that
\* train returns after epochs * len(dataloader) steps.
C13_NonFiniteLossIsNotHandled ==
    /\ [][(pc = "train" /\ epoch' = epoch /\ arch.class = "FM" /\ ~IsFinite(BatchLoss))
            => /\ "error" \notin DOMAIN out'
               /\ Diverged'
               /\ n_steps' = n_steps + 1
               /\ params' = Adam_step(params, opt, grad').params
               /\ pending' = pending \ ServedRows
               /\ ServedRows # {}
               /\ pc' = "train"]_vars
    /\ (pc = "train" /\ Diverged)
           ~> (pc = "idle" /\ epoch = epochs /\ n_steps = epochs * NumBatches)

\* The first batch of an epoch has left a loss that is not finite, and rows
\* are left to serve.
C13_Witness ==
    /\ pc = "train"
    /\ Diverged
    /\ pending # {}
    /\ epochs = 2

-----------------------------------------------------------------------------
(* The MLP block and the two modes. *)

\* model.forward(x) has just been called directly, in training mode, on one sample.
TrainingPassOfOne == calls' = calls + 1 /\ out'.caller = "forward" /\ training /\ Len(x') = 1

\* model.predict(x) has just been called on one sample.
PredictOfOne == calls' = calls + 1 /\ out'.caller = "predict" /\ Len(x') = 1

\* The layers of the MLP blocks of the model.
MLPLayers ==
    IF arch.class = "TwoTower"
    THEN Range(arch.item_mlp) \cup Range(arch.user_mlp)
    ELSE Range(arch.mlp)

HasBatchNorm == \E L \in MLPLayers : L.kind = "BatchNorm1d"

\* C14 as stated: a training-mode forward pass of Wide&Deep, NCF or Two-Tower
\* on a batch of one sample ends in an error and changes no parameter, and
\* predict on the same batch returns a result.
C14_OneSampleTrainingPassRaises ==
    [][/\ TrainingPassOfOne => ("error" \in DOMAIN out' /\ params' = params)
       /\ PredictOfOne => ("res" \in DOMAIN out' /\ out'.res # <<>>)]_vars

\* C14, amended: the same for the models whose MLP block has at least one
\* hidden width, that is a BatchNorm1d layer.
C14_BatchNormRefusesOneSample ==
    [][/\ (TrainingPassOfOne /\ HasBatchNorm) => ("error" \in DOMAIN out' /\ params' = params)
       /\ PredictOfOne => ("res" \in DOMAIN out' /\ out'.res # <<>> /\ params' = params)]_vars

\* A model with a BatchNorm1d layer has refused one sample in training mode.
C14_Witness ==
    /\ HasBatchNorm
    /\ out.caller = "forward"
    /\ "error" \in DOMAIN out
    /\ out.training
    /\ Len(x) = 1


-----------------------------------------------------------------------------
(* The constructors.  A constructor call makes the object and runs __init__
   on it statement by statement; a statement that raises ends the call, and
   the object keeps what the statements before it assigned.  arch and params
   describe the object the last constructor worked on, out the call, its
   arguments and the exception, if one was raised. *)

Sizes == 1..MaxSize

\* The lists of hidden widths a constructor is given.
HiddenDims == {<<>>} \cup SeqsUpTo(Sizes, MaxHidden)

\* The dropout probabilities a constructor is given, in percent.
Dropouts == {10, 20}

NoAttributes == [k \in {} |-> 0]

\* class MF.  super.__init__() names the type super, not super(): the call
\* raises TypeError and the statement after it is not reached.
MF_init(n_users, n_items, embed_dim, seed) ==
    LET super_init == [ok |-> FALSE, error |-> "TypeError"]
    IN  IF super_init.ok
        THEN [ok |-> TRUE, self |-> [embedding |-> InitTable(seed, 1, n_users + n_items, embed_dim)]]
        ELSE [ok |-> FALSE, error |-> super_init.error, self |-> NoAttributes]

\* MF.forward(x) on the object p: both columns of x select rows of the one
\* table self.embedding.
MF_forward(p, xb) ==
    IF "embedding" \notin DOMAIN p
    THEN [ok |-> FALSE, error |-> "AttributeError"]
    ELSE LET user_embed == [b \in DOMAIN xb |-> p.embedding[xb[b][1]]]
             item_embed == [b \in DOMAIN xb |-> p.embedding[xb[b][2]]]
         IN  [ok |-> TRUE,
              rows |-> [b \in DOMAIN xb |-> <<xb[b][1], xb[b][2]>>],
              res |-> [b \in DOMAIN xb |->
                          SumSeq([l \in DOMAIN user_embed[b] |-> user_embed[b][l] * item_embed[b][l]])]]

(* class DeepFM.  The class statement names nn.module, which torch.nn does
   not have.  The body of __init__ is modelled as it runs on an nn.Module
   object: the closing nn.Linear(mlp_input_dim, 1) reads a local name that is
   never bound (the loop keeps the width in input_dim, the product is kept in
   self.mlp_input_dim), so the call raises NameError with the hidden stages
   in the local list mlp_layers and self.mlp not assigned. *)

DeepFM_bases == [ok |-> FALSE, error |-> "AttributeError"]

DeepFM_init(n_fields, n_features, embed_dim, mlp_dims, dropout, seed) ==
    LET closing == [ok |-> FALSE, error |-> "NameError"]
        self == [embedding |-> InitTable(seed, 1, n_features, embed_dim),
                 fc |-> InitTable(seed, 2, n_features, 1),
                 bias |-> Zeros(1, 0)]
        made == [class |-> "DeepFM",
                 n_fields |-> n_fields,
                 n_features |-> n_features,
                 embed_dim |-> embed_dim,
                 mlp_input_dim |-> n_fields * embed_dim,
                 mlp_layers |-> hidden_stages(n_fields * embed_dim, mlp_dims, dropout)]
    IN  IF closing.ok
        THEN [ok |-> TRUE, arch |-> made, self |-> self]
        ELSE [ok |-> FALSE, error |-> closing.error, arch |-> made, self |-> self]

\* The state a constructor call leaves.
Constructed(a, p, buf, o) ==
    /\ arch' = a
    /\ params' = p
    /\ buffers' = buf
    /\ grad' = zero_grad(p)
    /\ out' = o
    /\ calls' = calls + 1
    /\ UNCHANGED <<training, grad_enabled, opt, pc, epochs, epoch, n_steps, dataloader, pending,
                   x, prep>>

Call(class, args) == [caller |-> class, args |-> args]

Raise(class, args, error) == [caller |-> class, args |-> args, error |-> error]

Construct_MF ==
    /\ calls = 0
    /\ \E n_users \in Sizes, n_items \in Sizes, embed_dim \in Sizes, seed \in 1..NSeeds :
        LET r == MF_init(n_users, n_items, embed_dim, seed)
            args == [n_users |-> n_users, n_items |-> n_items, embed_dim |-> embed_dim, seed |-> seed]
        IN  Constructed([class |-> "MF"], r.self, NoAttributes,
                        IF r.ok THEN Call("MF", args) ELSE Raise("MF", args, r.error))

Construct_FM ==
    /\ calls = 0
    /\ \E n_features \in Sizes, embed_dim \in Sizes, seed \in 1..NSeeds :
        Constructed([class |-> "FM", n_features |-> n_features, embed_dim |-> embed_dim],
                    FM_init(seed, n_features, embed_dim), NoAttributes,
                    Call("FM", [n_features |-> n_features, embed_dim |-> embed_dim, seed |-> seed]))

\* The cell of the class statement is run: the name DeepFM stays unbound.
DeepFM_class ==
    /\ calls = 0
    /\ ~DeepFM_bases.ok
    /\ out' = [caller |-> "class DeepFM", error |-> DeepFM_bases.error]
    /\ calls' = calls + 1
    /\ UNCHANGED <<arch, params, buffers, training, grad_enabled, grad, opt, pc, epochs, epoch,
                   n_steps, dataloader, pending, x, prep>>

Construct_DeepFM ==
    /\ calls = 0
    /\ \E n_fields \in Sizes, n_features \in Sizes, embed_dim \in Sizes, mlp_dims \in HiddenDims,
          dropout \in Dropouts, seed \in 1..NSeeds :
        LET r == DeepFM_init(n_fields, n_features, embed_dim, mlp_dims, dropout, seed)
            args == [n_fields |-> n_fields, n_features |-> n_features, embed_dim |-> embed_dim,
                     mlp_dims |-> mlp_dims, dropout |-> dropout, seed |-> seed]
        IN  Constructed(r.arch, r.self, Sequential_buffers("mlp", r.arch.mlp_layers, 1),
                        IF r.ok THEN Call("DeepFM", args) ELSE Raise("DeepFM", args, r.error))

Construct_WideDeep ==
    /\ calls = 0
    /\ \E n_fields \in Sizes, n_features \in Sizes, embed_dim \in Sizes, mlp_dims \in HiddenDims,
          dropout \in Dropouts, seed \in 1..NSeeds :
        LET a == WideDeep_arch(n_fields, n_features, mlp_dims, embed_dim, dropout)
        IN  Constructed(a, WideDeep_init(a, seed), Model_buffers(a),
                        Call("WideDeep",
                             [n_fields |-> n_fields, n_features |-> n_features, embed_dim |-> embed_dim,
                              mlp_dims |-> mlp_dims, dropout |-> dropout, seed |-> seed]))

Construct_NCF ==
    /\ calls = 0
    /\ \E mlp_layers \in HiddenDims, n_features \in Sizes, gmf_embed_dim \in Sizes,
          mlp_embed_dim \in Sizes, dropout \in Dropouts, seed \in 1..NSeeds :
        LET a == NCF_arch(mlp_layers, n_features, gmf_embed_dim, mlp_embed_dim, dropout)
        IN  Constructed(a, NCF_init(a, seed), Model_buffers(a),
                        Call("NCF",
                             [mlp_layers |-> mlp_layers, n_features |-> n_features,
                              gmf_embed_dim |-> gmf_embed_dim, mlp_embed_dim |-> mlp_embed_dim,
                              dropout |-> dropout, seed |-> seed]))

Construct_TwoTower ==
    /\ calls = 0
    /\ \E n_features \in Sizes \X Sizes, n_fields \in Sizes \X Sizes, embed_dim \in Sizes,
          mlp_out_embed_dim \in Sizes, item_mlp_dims \in HiddenDims,
          user_mlp_dims \in {None} \cup {Some(d) : d \in HiddenDims}, dropout \in Dropouts :
        LET a == TwoTower_arch(n_features[1], n_features[2], n_fields[1], n_fields[2], embed_dim,
                               mlp_out_embed_dim, item_mlp_dims, user_mlp_dims, dropout)
        IN  Constructed(a, TwoTower_init(a, 1), Model_buffers(a),
                        Call("TwoTower",
                             [n_item_features |-> n_features[1], n_user_features |-> n_features[2],
                              n_item_fields |-> n_fields[1], n_user_fields |-> n_fields[2],
                              embed_dim |-> embed_dim, mlp_out_embed_dim |-> mlp_out_embed_dim,
                              item_mlp_dims |-> item_mlp_dims, user_mlp_dims |-> user_mlp_dims,
                              dropout |-> dropout, seed |-> 1]))

\* Line 30 of MF.__init__, which the raise of line 28 keeps from running, as it
\* runs on the object: the one table of n_users + n_items rows is assigned.
MF_Assign ==
    /\ calls = 1
    /\ out.caller = "MF"
    /\ params' = [embedding |-> InitTable(out.args.seed, 1, out.args.n_users + out.args.n_items,
                                          out.args.embed_dim)]
    /\ out' = [caller |-> "MF.embedding", args |-> out.args]
    /\ UNCHANGED <<arch, buffers, training, grad_enabled, grad, opt, pc, epochs, epoch, n_steps,
                   calls, dataloader, pending, x, prep>>

\* The batches MF.forward is given for the table sizes of the call: rows of
\* two indices of the table.
MF_batches(args) ==
    LET pairs == (0..(args.n_users + args.n_items - 1)) \X (0..(args.n_users + args.n_items - 1))
    IN  {<<s>> : s \in pairs} \cup {<<s, t>> : s, t \in pairs}

\* forward is called on the object of the last MF(...) call.
MF_Forward ==
    /\ calls = 1
    /\ out.caller \in {"MF", "MF.embedding"}
    /\ \E xb \in MF_batches(out.args) :
        LET r == MF_forward(params, xb)
        IN  /\ x' = xb
            /\ out' = IF r.ok
                      THEN [caller |-> "MF.forward", args |-> out.args, res |-> r.res,
                            rows |-> r.rows]
                      ELSE [caller |-> "MF.forward", args |-> out.args, error |-> r.error]
    /\ calls' = calls + 1
    /\ UNCHANGED <<arch, params, buffers, training, grad_enabled, grad, opt, pc, epochs, epoch,
                   n_steps, dataloader, pending, prep>>

InitConstruct == NoModel /\ prep = NoPrep

NextConstruct ==
    \/ Construct_MF
    \/ Construct_FM
    \/ DeepFM_class
    \/ Construct_DeepFM
    \/ Construct_WideDeep
    \/ Construct_NCF
    \/ Construct_TwoTower
    \/ MF_Assign
    \/ MF_Forward

SpecConstruct == InitConstruct /\ [][NextConstruct]_vars


-----------------------------------------------------------------------------
(* The constructed objects *)

\* The block the claim describes for an input width, hidden widths and an
\* output width: four layers per hidden width and one closing Linear.
StagesThenOneAffine(input_dim, widths, out_dim, dropout) ==
    [i \in 1..(4 * Len(widths) + 1) |->
        LET k == ((i - 1) \div 4) + 1
            before == IF k = 1 THEN input_dim ELSE widths[k - 1]
        IN  IF i = 4 * Len(widths) + 1
            THEN [kind |-> "Linear", in_features |-> before, out_features |-> out_dim]
            ELSE CASE (i - 1) % 4 = 0 ->
                        [kind |-> "Linear", in_features |-> before, out_features |-> widths[k]]
                   [] (i - 1) % 4 = 1 -> [kind |-> "BatchNorm1d", num_features |-> widths[k]]
                   [] (i - 1) % 4 = 2 -> [kind |-> "ReLU"]
                   [] (i - 1) % 4 = 3 -> [kind |-> "Dropout", p |-> dropout]]

\* The hidden widths the user tower is built for.
UserWidths(args) ==
    IF args.user_mlp_dims = None \/ args.user_mlp_dims = Some(<<>>)
    THEN args.item_mlp_dims
    ELSE args.user_mlp_dims[1]

ConstructorCalled(class) == calls = 1 /\ out.caller = class

\* C15: the MLP built by WideDeep, by DeepFM and by each TwoTower tower for
\* hidden widths [h1..hn] is (Linear, BatchNorm1d, ReLU, Dropout) once per
\* width followed by exactly one closing Linear; every Linear takes the width
\* the stage before it gives, the first n_fields * embed_dim, the last hn.
C15_MLPIsStagesThenOneAffine ==
    /\ ConstructorCalled("WideDeep") =>
          arch.mlp = StagesThenOneAffine(out.args.n_fields * out.args.embed_dim,
                                         out.args.mlp_dims, 1, out.args.dropout)
    /\ ConstructorCalled("DeepFM") =>
          /\ "mlp" \in DOMAIN arch
          /\ arch.mlp = StagesThenOneAffine(out.args.n_fields * out.args.embed_dim,
                                            out.args.mlp_dims, 1, out.args.dropout)
    /\ ConstructorCalled("TwoTower") =>
          /\ arch.item_mlp = StagesThenOneAffine(out.args.n_item_fields * out.args.embed_dim,
                                                 out.args.item_mlp_dims,
                                                 out.args.mlp_out_embed_dim, out.args.dropout)
          /\ arch.user_mlp = StagesThenOneAffine(out.args.n_user_fields * out.args.embed_dim,
                                                 UserWidths(out.args),
                                                 out.args.mlp_out_embed_dim, out.args.dropout)

\* The number of elements of a tensor of rows.
numel(t) == SumSeq([r \in DOMAIN t |-> Len(t[r])])

\* C18: every model with a global bias term (FM, DeepFM, WideDeep) holds
\* exactly one bias scalar, and it is 0 right after construction.
C18_OneZeroBiasScalar ==
    (calls = 1 /\ out.caller \in {"FM", "DeepFM", "WideDeep"}) =>
        /\ "bias" \in DOMAIN params
        /\ numel(params.bias) = 1
        /\ IsZero(params.bias)

\* C19: MF.forward returns for every sample [user_id, item_id] the raw dot
\* product of the two rows of the one embedding table the indices select, one
\* value per sample, with no bias and no sigmoid.
C19_ForwardIsRawDotProduct ==
    (calls = 2 /\ out.caller = "MF.forward") =>
        /\ "res" \in DOMAIN out
        /\ DOMAIN out.res = DOMAIN x
        /\ \A b \in DOMAIN x :
              out.res[b] = Dot(params.embedding[x[b][1]], params.embedding[x[b][2]])

Classes == {"MF", "FM", "DeepFM", "WideDeep", "NCF", "TwoTower"}

\* The tensors the constructor of the class assigns.
AssignedBy(class) ==
    CASE class = "MF" -> {"embedding"}
      [] class = "FM" -> {"feature_embedding", "fc", "bias"}
      [] class = "DeepFM" -> {"embedding", "fc", "bias", "mlp." \o ToString(0) \o ".weight"}
      [] class = "WideDeep" -> {"embedding", "linear", "bias", "mlp." \o ToString(0) \o ".weight"}
      [] class = "NCF" -> {"gmf_embedding", "mlp_embedding", "fc.weight", "fc.bias"}
      [] class = "TwoTower" -> {"item_embedding", "user_embedding",
                                "item_mlp." \o ToString(0) \o ".weight",
                                "user_mlp." \o ToString(0) \o ".weight"}

\* C20: constructing any of MF, FM, DeepFM, WideDeep, NCF, TwoTower with
\* positive sizes completes without raising and leaves a model with its
\* embedding tables, bias and MLP layers initialized.
C20_ConstructionCompletes ==
    (calls = 1 /\ out.caller \in Classes) =>
        /\ "error" \notin DOMAIN out
        /\ AssignedBy(out.caller) \subseteq DOMAIN params


-----------------------------------------------------------------------------
(* The mode of the passes inside train and inside predict *)

\* A forward pass of train has run (and returned or raised).
TrainPass == pc = "train" /\ epoch' = epoch /\ out'.caller = "train"

\* A forward pass of predict has run.
PredictPass == pc' = "idle" /\ calls' = calls + 1 /\ out'.caller = "predict"

\* What a pass on x' in the given mode with the given dropout mask leaves.
PassIs(mode, mask) ==
    LET f == Model_forward(arch, params, buffers, mode, mask, x')
    IN  /\ out'.training = mode
        /\ buffers' = f.buffers
        /\ IF f.ok THEN "res" \in DOMAIN out' /\ out'.res = f.res ELSE "error" \in DOMAIN out'

\* C16: every forward pass inside train runs in training mode (a drawn
\* dropout mask, the batch's statistics), every forward pass inside predict
\* in evaluation mode with gradient tracking off (dropout passes its input
\* on, the running statistics are used and kept), whatever calls came before.
C16_TrainInTrainingPredictInEval ==
    /\ [][TrainPass =>
            /\ training
            /\ \E mask \in Model_masks(arch, TRUE, Len(x')) : PassIs(TRUE, mask)]_vars
    /\ [][PredictPass =>
            /\ ~training'
            /\ ~out'.grad
            /\ buffers' = buffers
            /\ PassIs(FALSE, IF arch.class = "FM" THEN <<>>
                             ELSE KeepAll(arch.mlp, Len(x')))]_vars

\* predict has run on the Wide&Deep model after a train call that took steps.
C16_Witness ==
    /\ arch.class = "WideDeep"
    /\ out.caller = "predict"
    /\ "res" \in DOMAIN out
    /\ n_steps > 0
    /\ ~out.training
    /\ ~out.grad


-----------------------------------------------------------------------------
(* The rows of the embedding tables an optimizer step moves *)

\* The embedding tables of the FM.
Tables == {"feature_embedding", "fc"}

\* The indices that occur in the batch xb.
Gathered_rows(xb) == UNION {Range(xb[b]) : b \in DOMAIN xb}

\* The first moment the optimizer holds for row r of table n is zero.
ZeroMoment(n, r) == \A c \in DOMAIN opt.m[n][r] : opt.m[n][r][c] = 0

\* C17 (as stated): an optimizer step taken for a batch changes only the
\* embedding-table rows whose indices occur in the batch; every other row has
\* the same value after the step as before it, at any point of a training run.
C17_OnlyBatchRowsChange ==
    [][(Stepped /\ arch.class = "FM") =>
          \A n \in Tables : \A r \in DOMAIN params[n] \ Gathered_rows(x') :
              params'[n][r] = params[n][r]]_vars

\* C17 (amended): an optimizer step taken for a batch leaves every
\* embedding-table row unchanged whose index does not occur in the batch and
\* whose first moment in the optimizer is zero, at any point of a training
\* run.
C17_UntouchedRowsUnchanged ==
    [][(Stepped /\ arch.class = "FM") =>
          \A n \in Tables : \A r \in DOMAIN params[n] \ Gathered_rows(x') :
              ZeroMoment(n, r) => params'[n][r] = params[n][r]]_vars

\* After the second step of a train call a row outside the batch has a zero
\* first moment, another one outside the batch has a first moment from the
\* step before, and a row of the batch has moved.
C17_Witness ==
    /\ arch.class = "FM"
    /\ pc = "train"
    /\ n_steps = 2
    /\ \E r \in DOMAIN params.fc \ Gathered_rows(x) : ZeroMoment("fc", r)
    /\ \E r \in DOMAIN params.fc \ Gathered_rows(x) : ~ZeroMoment("fc", r)
    /\ \E r \in Gathered_rows(x) : ~ZeroMoment("fc", r)


-----------------------------------------------------------------------------
(* The FM output as a function of one sample *)

\* FM.forward on the batch that holds the one sample s.
Alone(s) == FM_forward(params, <<s>>)

\* C21: row i of FM.forward's result equals the result of FM.forward on the
\* one-sample batch holding sample i alone, for every batch and parameters.
C21_RowIndependentOfBatch ==
    (Returned /\ arch.class = "FM") =>
        \A b \in DOMAIN x : out.res[b] = Alone(x[b]).res[1]

\* forward has returned for two different samples with different results,
\* on a trained FM.
C21_Witness ==
    /\ Returned
    /\ arch.class = "FM"
    /\ n_steps > 0
    /\ Len(x) = 2
    /\ x[1] # x[2]
    /\ out.res[1] # out.res[2]

\* The orders the slots of a sample of d slots can be put in.
SlotOrders(d) == {q \in [1..d -> 1..d] : \A i, j \in 1..d : q[i] = q[j] => i = j}

Reordered(s, q) == [i \in DOMAIN s |-> s[q[i]]]

\* C22: the first-order term, the interaction term and the output of FM.forward
\* for a sample are the same for every order of the sample's feature slots.
C22_SlotOrderIrrelevant ==
    (Returned /\ arch.class = "FM") =>
        \A b \in DOMAIN x : \A q \in SlotOrders(Len(x[b])) :
            /\ Alone(Reordered(x[b], q)).first_order[1] = out.first_order[b]
            /\ Alone(Reordered(x[b], q)).second_order[1] = out.second_order[b]
            /\ Alone(Reordered(x[b], q)).res[1] = out.res[b]

\* forward has returned for a sample of three or more slots that are not all
\* the same feature, with a non-zero interaction term, on a trained FM.
C22_Witness ==
    /\ Returned
    /\ arch.class = "FM"
    /\ n_steps > 0
    /\ Len(x[1]) >= 3
    /\ \E i, j \in DOMAIN x[1] : x[1][i] # x[1][j]
    /\ out.second_order[1][1] # 0
    /\ out.first_order[1][1] # 0


-----------------------------------------------------------------------------
(* The train/test split *)

\* The 0-based numbers of the rows of user u in the prepared x.
RowsOf(u) == {i \in 0..(Len(prep.X) - 1) : prep.X[i + 1][1] = u}

\* C23: with the rating rows grouped by user, the test set holds exactly one
\* row per user, that user's last row, the training set every other row (the
\* first n-1 rows of a user with n rows); the two sets are disjoint and
\* together cover all rows.
C23_LastRowPerUserIsTest ==
    prep.notebook = "hybrid" =>
        /\ \A u \in prep.user_ix :
              /\ prep.test_ix \cap RowsOf(u) = {Max(RowsOf(u))}
              /\ prep.train_ix \cap RowsOf(u) = RowsOf(u) \ {Max(RowsOf(u))}
        /\ prep.test_ix \cap prep.train_ix = {}
        /\ prep.test_ix \cup prep.train_ix = 0..(Len(prep.X) - 1)

\* A split of three rows: the two rows of user 0, then the one row of user 1.
C23_Witness ==
    /\ prep.notebook = "hybrid"
    /\ Len(prep.X) = 3
    /\ Cardinality(RowsOf(0)) = 2
    /\ Cardinality(RowsOf(1)) = 1
    /\ prep.train_ix = {0}
    /\ prep.test_ix = {1, 2}


-----------------------------------------------------------------------------
(* recommend(user_id, n_sample) of the LightFM notebook.  rating is the
   DataFrame of the notebook: row r (its label, 0-based) holds userId, movieId
   and the implicit rating 0 or 1; pred_scores[i] is the score model.predict
   gives item i for the user. *)

Items == 0..(MaxItems - 1)

RatingRows == [userId : 0..1, movieId : Items, rating : {0, 1}]

RatingFrames == SeqsUpTo(RatingRows, MaxRows)

\* rating[(rating['userId']==user_id)&(rating['rating']==1)]['movieId']: the
\* Series of the user's positive rows, by row label.
watched_series(rating, user_id) ==
    {r \in 0..(Len(rating) - 1) : rating[r + 1].userId = user_id /\ rating[r + 1].rating = 1}

\* watched_ix.sample(min(n_sample, len(watched_ix))): the row labels a draw can keep.
sample(labels, n) == KSubsets(labels, Min(n, Cardinality(labels)))

\* np.argsort(pred_scores): an order of the positions with ascending scores
\* (equal scores in either order).
argsort(pred_scores) ==
    {q \in [1..MaxItems -> Items] :
        /\ \A i, j \in 1..MaxItems : q[i] = q[j] => i = j
        /\ \A i \in 1..(MaxItems - 1) : pred_scores[q[i]] <= pred_scores[q[i + 1]]}

\* a[::-1]
reversed(a) == [i \in DOMAIN a |-> a[Len(a) + 1 - i]]

\* [i for i in range(len(pred_scores)) if i not in watched_ix]: "in" on a
\* Series looks i up among the row labels of the Series.
not_in_watched(watched_ix) == {i \in Items : i \notin watched_ix}

\* ranked[positions][:n_sample]: the entries of ranked at the positions, the
\* first n_sample of them.
rec_movie_id(ranked, positions, n_sample) ==
    LET taken == [k \in 1..Cardinality(positions) |-> ranked[SortedSeq(positions)[k] + 1]]
    IN  SubSeq(taken, 1, Min(n_sample, Len(taken)))

Recommend ==
    /\ calls = 0
    /\ \E rating \in RatingFrames, pred_scores \in [Items -> 0..MaxScore], user_id \in 0..1,
          n_sample \in 1..MaxSample :
        \E watched_ix \in sample(watched_series(rating, user_id), n_sample),
           order \in argsort(pred_scores) :
            out' = [caller |-> "recommend",
                    user_id |-> user_id,
                    n_sample |-> n_sample,
                    rating |-> rating,
                    pred_scores |-> pred_scores,
                    watched |-> {rating[r + 1].movieId : r \in watched_ix},
                    recommended |-> rec_movie_id(reversed(order), not_in_watched(watched_ix),
                                                 n_sample)]
    /\ calls' = calls + 1
    /\ UNCHANGED <<arch, params, buffers, training, grad_enabled, grad, opt, pc, epochs, epoch,
                   n_steps, dataloader, pending, x, prep>>

SpecRecommend == InitConstruct /\ [][Recommend]_vars

\* The items the user of the call has rated positively.
PositivelyRated ==
    {out.rating[r].movieId :
        r \in {q \in DOMAIN out.rating : /\ out.rating[q].userId = out.user_id
                                         /\ out.rating[q].rating = 1}}

\* C24: recommend(user_id, n_sample) returns at most n_sample items, in
\* descending order of predicted score, none of which the user has already
\* rated positively.
C24_RecommendsUnseenByScore ==
    (calls = 1 /\ out.caller = "recommend") =>
        /\ Len(out.recommended) <= out.n_sample
        /\ \A k \in 1..(Len(out.recommended) - 1) :
              out.pred_scores[out.recommended[k]] >= out.pred_scores[out.recommended[k + 1]]
        /\ \A k \in DOMAIN out.recommended : out.recommended[k] \notin PositivelyRated


-----------------------------------------------------------------------------
(* The widths of the user tower *)

\* C25: TwoTower builds the user tower from user_mlp_dims whenever the caller
\* gives it, whatever list it is (an empty list of hidden widths included),
\* and from item_mlp_dims only when user_mlp_dims is not given.
C25_UserTowerFromGivenWidths ==
    ConstructorCalled("TwoTower") =>
        arch.user_mlp = StagesThenOneAffine(out.args.n_user_fields * out.args.embed_dim,
                                            IF out.args.user_mlp_dims = None
                                            THEN out.args.item_mlp_dims
                                            ELSE out.args.user_mlp_dims[1],
                                            out.args.mlp_out_embed_dim, out.args.dropout)


-----------------------------------------------------------------------------
(* The mode a call leaves behind *)

\* train has been called.
TrainCalled == pc = "idle" /\ pc' = "train"

\* forward has been called directly.
ForwardPass == pc' = "idle" /\ calls' = calls + 1 /\ out'.caller = "forward"

\* C26: after any sequence of train and predict calls the model's mode is the
\* one the most recent call set, training after train and evaluation after
\* predict; predict turns gradient tracking back on when it returns and does
\* not put back the mode it found, so a direct forward call after predict
\* runs in evaluation mode.
C26_ModeIsLastCallsMode ==
    /\ [][TrainCalled => training']_vars
    /\ [][(pc = "train") => (training /\ training')]_vars
    /\ [][PredictPass => (~training' /\ grad_enabled')]_vars
    /\ [][ForwardPass => /\ training' = training
                          /\ out'.training = training
                          /\ "res" \in DOMAIN out' => out'.grad = grad_enabled]_vars
    /\ [][(ForwardPass /\ out.caller = "predict") =>
            /\ ~out'.training
            /\ "res" \in DOMAIN out' => out'.grad]_vars

\* A direct forward call has run in evaluation mode, with gradient tracking
\* on, on the Wide&Deep model that was constructed in training mode.
C26_Witness ==
    /\ arch.class = "WideDeep"
    /\ out.caller = "forward"
    /\ "res" \in DOMAIN out
    /\ ~out.training
    /\ out.grad
    /\ calls = 2


-----------------------------------------------------------------------------
(* The rows no sample uses *)

\* The rows of NCF's tables that occur in no sample of the data.
NeverGathered == (0..(arch.n_features - 1)) \ Gathered_rows(NCFData.X)

\* C27: an embedding row whose index occurs in no training batch keeps its
\* initial value through any number of training steps (the rows 0 and
\* max(item_id)+1 of NCF's tables, which no sample uses).
C27_UnusedRowsKeepTheirValue ==
    [][arch.class = "NCF" =>
          \A n \in {"gmf_embedding", "mlp_embedding"} : \A r \in NeverGathered :
              params'[n][r] = params[n][r]]_vars

\* Two steps into a second train call rows 0 and max(item_id)+1 = 3 are unused
\* and a used row of the MLP table has moved with the optimizer.
C27_Witness ==
    /\ arch.class = "NCF"
    /\ calls = 2
    /\ n_steps = 2
    /\ NeverGathered = {0, 3}
    /\ \E r \in Gathered_rows(NCFData.X) : opt.m.mlp_embedding[r][1] # 0
    /\ \A r \in NeverGathered : opt.m.mlp_embedding[r][1] = 0 /\ opt.m.gmf_embedding[r][1] = 0


-----------------------------------------------------------------------------
(* The sizes of the batches train is fed *)

\* C28: for every training-set size N >= 1 every batch the DataLoader feeds
\* to a training-mode forward pass of a batch-normalized model holds at least
\* 2 samples, so the pass of train never raises for a batch of one.
C28_NoBatchOfOneInTrain ==
    [][(TrainPass /\ arch.class = "WideDeep") =>
          (Len(x') >= 2 /\ "error" \notin DOMAIN out')]_vars


-----------------------------------------------------------------------------
(* The dropout probability of the stages *)

\* The layer lists of the object of the last constructor call.
LayerLists ==
    CASE out.caller = "TwoTower" -> {arch.item_mlp, arch.user_mlp}
      [] out.caller = "DeepFM" -> {arch.mlp_layers}
      [] OTHER -> {arch.mlp}

\* C29: the dropout probability passed to the constructor is the probability
\* of every dropout stage of the model's MLP, for WideDeep, DeepFM, NCF and
\* TwoTower.
C29_DropoutArgumentUsed ==
    (calls = 1 /\ out.caller \in {"WideDeep", "DeepFM", "NCF", "TwoTower"}) =>
        \A layers \in LayerLists : \A i \in DOMAIN layers :
            layers[i].kind = "Dropout" => layers[i].p = out.args.dropout


-----------------------------------------------------------------------------
(* The rows MF.forward reads *)

\* C30: for a sample [u, i] with u in [0, n_users) and i in [0, n_items)
\* MF.forward reads the user vector and the item vector from two different
\* rows of the shared table.
C30_UserAndItemRowsDiffer ==
    (calls = 2 /\ out.caller = "MF.forward" /\ "rows" \in DOMAIN out) =>
        \A b \in DOMAIN x :
            (x[b][1] < out.args.n_users /\ x[b][2] < out.args.n_items) =>
                out.rows[b][1] # out.rows[b][2]

====
